---- MODULE Spec2Model ----
(***************************************************************************)
(* Model of the MongoDB CRUD service: the REST routes of server.js over    *)
(* the two Mongoose collections (roles, users) and the nine MCP tools of   *)
(* mcp-server.js that call those routes over HTTP.                         *)
(*                                                                         *)
(* Strings the program converts or measures (trim, lowercase, length,      *)
(* the 24-hex test) are sequences of one-character strings, so that the    *)
(* conversions are computed and not assumed.  An argument bag or a stored  *)
(* document is a function from field names to values; a field that is     *)
(* absent (undefined in the JavaScript) is absent from its DOMAIN.         *)
(***************************************************************************)
EXTENDS Integers, Sequences, FiniteSets, TLC

VARIABLES roles, users, nextId, last, prevSeed, tasks

vars == <<roles, users, nextId, last, prevSeed, tasks>>

---------------------------------------------------------------------------
(* Bounds *)

\* Number of documents the store may ever insert (ObjectIds handed out).
MaxIds == 3

\* The store calls of one request are numbered from 1; a fault k makes the
\* k-th call fail, 0 none.  The longest handlers make three calls.
MaxDbCalls == 3

---------------------------------------------------------------------------
(* Program constants *)

IdLen == 24
MinPasswordLen == 6

Permissions == {"read", "write", "delete", "admin"}

---------------------------------------------------------------------------
(* String literals *)

sEmpty == <<>>
sAdmin == <<"a", "d", "m", "i", "n">>
sAdminCap == <<"A", "d", "m", "i", "n">>
sAdminUp == <<"A", "D", "M", "I", "N">>
sAdminPad == <<" ", "a", "d", "m", "i", "n", " ">>
sUser == <<"u", "s", "e", "r">>
sMgr == <<"m", "a", "n", "a", "g", "e", "r">>
sAdminDesc == <<"A", "d", "m", "i", "n", "i", "s", "t", "r", "a", "t", "o", "r", " ", "w", "i", "t", "h", " ", "f", "u", "l", "l", " ", "a", "c", "c", "e", "s", "s">>
sUserDesc == <<"R", "e", "g", "u", "l", "a", "r", " ", "u", "s", "e", "r", " ", "w", "i", "t", "h", " ", "l", "i", "m", "i", "t", "e", "d", " ", "a", "c", "c", "e", "s", "s">>
sAdminFirst == <<"A", "d", "m", "i", "n">>
sAdminLast == <<"U", "s", "e", "r">>
sAdminEmail == <<"a", "d", "m", "i", "n", "@", "e", "x", "a", "m", "p", "l", "e", ".", "c", "o", "m">>
sAdminPassword == <<"a", "d", "m", "i", "n", "1", "2", "3">>
sAdminPhone == <<"+", "1", "2", "3", "4", "5", "6", "7", "8", "9", "0">>
sJohn == <<" ", "J", "o", "h", "n">>
sDoe == <<"D", "o", "e">>
sAl == <<"A", "l">>
sJohnEmail == <<"J", "O", "H", "N", "@", "X", ".", "C", "O", "M">>
sJohnEmailLow == <<"j", "o", "h", "n", "@", "x", ".", "c", "o", "m">>
sSecret == <<"s", "e", "c", "r", "e", "t", "1">>
sShort == <<"a", "b", "c">>
sPhone == <<"5", "5", "5", " ">>
sDesc == <<"d">>
sBlank == <<" ", " ">>
sBadId == <<"x", "y", "z">>
sBcryptPrefix == <<"$", "2", "a", "$", "1", "0", "$">>
sActive == <<"A", "c", "t", "i", "v", "e">>
sInactive == <<"I", "n", "a", "c", "t", "i", "v", "e">>
sNotProvided == <<"N", "o", "t", " ", "p", "r", "o", "v", "i", "d", "e", "d">>
sUndefined == <<"u", "n", "d", "e", "f", "i", "n", "e", "d">>

---------------------------------------------------------------------------
(* String helpers *)

HexChars == {"0", "1", "2", "3", "4", "5", "6", "7", "8", "9",
             "a", "b", "c", "d", "e", "f", "A", "B", "C", "D", "E", "F"}

HexDigit == <<"1", "2", "3", "4", "5", "6", "7", "8", "9", "a", "b", "c", "d", "e", "f">>

\* The lower-case letter of each upper-case letter.
UpperToLower ==
    [A |-> "a", B |-> "b", C |-> "c", D |-> "d", E |-> "e", F |-> "f", G |-> "g",
     H |-> "h", I |-> "i", J |-> "j", K |-> "k", L |-> "l", M |-> "m", N |-> "n",
     O |-> "o", P |-> "p", Q |-> "q", R |-> "r", S |-> "s", T |-> "t", U |-> "u",
     V |-> "v", W |-> "w", X |-> "x", Y |-> "y", Z |-> "z"]

LowerChar(c) == IF c \in DOMAIN UpperToLower THEN UpperToLower[c] ELSE c

\* String.prototype.toLowerCase, and the schema option lowercase: true.
toLowerCase(s) == [i \in 1..Len(s) |-> LowerChar(s[i])]

RECURSIVE TrimLeft(_)
TrimLeft(s) == IF s # <<>> /\ Head(s) = " " THEN TrimLeft(Tail(s)) ELSE s

RECURSIVE TrimRight(_)
TrimRight(s) ==
    IF s # <<>> /\ s[Len(s)] = " " THEN TrimRight(SubSeq(s, 1, Len(s) - 1)) ELSE s

\* The schema option trim: true.
Trim(s) == TrimRight(TrimLeft(s))

\* The id pattern without its end anchor: /^[0-9a-fA-F]{24}/
IsObjectIdPrefix(s) == Len(s) >= IdLen /\ \A i \in 1..IdLen : s[i] \in HexChars

\* /^[0-9a-fA-F]{24}$/.test(s)
IsObjectIdShape(s) == Len(s) = IdLen /\ \A i \in 1..Len(s) : s[i] \in HexChars

\* The identifiers the store hands out, in order: 24 hexadecimal digits each.
ObjectIds == [n \in 1..Len(HexDigit) |-> [i \in 1..IdLen |-> IF i < IdLen THEN "0" ELSE HexDigit[n]]]

\* The n-th identifier the store hands out.
ObjectId(n) == ObjectIds[n]

\* bcrypt.hash(plaintext, 10): a digest that carries the bcrypt prefix; it is
\* never shorter than the prefix and never equal to its plaintext.
Hash(p) == sBcryptPrefix \o p

Has(bag, f) == f \in DOMAIN bag

\* bag with field f set to v
With(bag, f, v) == [k \in (DOMAIN bag) \cup {f} |-> IF k = f THEN v ELSE bag[k]]

\* bag without field f
Without(bag, f) == [k \in (DOMAIN bag) \ {f} |-> bag[k]]

\* {...a, ...b}: the fields of b laid over those of a
Merge(a, b) == [k \in (DOMAIN a) \cup (DOMAIN b) |-> IF k \in DOMAIN b THEN b[k] ELSE a[k]]

---------------------------------------------------------------------------
(* Messages and results *)

\* An error message: the fixed text and the values interpolated into it.
Msg(t, v) == [tmpl |-> <<t>>, vals |-> v]

\* `${prefix}${error.message}`
Wrap(p, m) == [tmpl |-> <<p>> \o m.tmpl, vals |-> m.vals]

\* The message of the error a store call throws when MongoDB cannot be reached.
StoreError == Msg("MongoDB unavailable", <<>>)

\* The message of the Mongoose CastError for an id that is no ObjectId.
CastError(v) == Msg("Cast to ObjectId failed for value", <<v>>)

\* The message of the MongoDB duplicate-key error (code 11000).
DuplicateKeyError(v) == Msg("E11000 duplicate key error", <<v>>)

\* The message of a Mongoose ValidationError: the model and the failing paths.
ValidationError(model, paths) == [tmpl |-> <<model, "validation failed">> \o paths, vals |-> <<>>]

\* What a route leaves behind: the collections, the id counter, and the response.
Res(r, u, n, status, body) == [roles |-> r, users |-> u, nid |-> n, status |-> status, body |-> body]

\* k-th store call of a request under fault f
Fails(f, k) == f = k

\* positions of the documents of a collection that satisfy P
Matching(coll, P(_)) == {i \in 1..Len(coll) : P(coll[i])}

\* the collection with document i replaced by d
Replace(coll, i, d) == [j \in 1..Len(coll) |-> IF j = i THEN d ELSE coll[j]]

\* the collection without document i
Remove(coll, i) == [j \in 1..(Len(coll) - 1) |-> IF j < i THEN coll[j] ELSE coll[j + 1]]

\* The document as the store inserts it: with the n-th identifier and, by
\* timestamps: true, with createdAt, the reading of the clock at the insert,
\* kept as the rank of the insert.  updatedAt, which every write sets anew, is
\* not kept.
Inserted(doc, n) == With(With(doc, "_id", ObjectId(n)), "createdAt", n)

\* findOne: the first document, in collection order, that satisfies P
First(S) == CHOOSE i \in S : \A j \in S : i <= j

---------------------------------------------------------------------------
(* Role schema *)

\* Setters of roleSchema: name is trimmed.
CastRole(body) ==
    [k \in DOMAIN body |-> IF k = "name" THEN Trim(body[k]) ELSE body[k]]

\* A role validator without the enum on permissions.
RoleInvalidPathsNoEnum(doc, paths) ==
    SelectSeq(<<"name", "description">>,
        LAMBDA k : k \in paths /\ (~Has(doc, k) \/ doc[k] = <<>>))

\* The paths of a role that fail validation among the paths in `paths`, in
\* schema order: name and description required, permissions in the enum.
RoleInvalidPaths(doc, paths) ==
    SelectSeq(<<"name", "description", "permissions">>,
        LAMBDA k :
            /\ k \in paths
            /\ \/ k \in {"name", "description"} /\ (~Has(doc, k) \/ doc[k] = <<>>)
               \/ k = "permissions" /\ Has(doc, k)
                    /\ \E i \in 1..Len(doc[k]) : doc[k][i] \notin Permissions)

RolePaths == {"name", "description", "permissions", "isActive"}

\* Defaults of roleSchema on a new document: permissions [], isActive true.
RoleDefaults(doc) ==
    Merge([permissions |-> <<>>, isActive |-> TRUE], doc)

\* A role collection without the unique index on name.
RoleNameNeverTaken(r, name, self) == FALSE

\* The unique index on name: another role holds exactly this name.
RoleNameTaken(r, name, self) ==
    \E i \in 1..Len(r) : r[i]._id # self /\ r[i].name = name

\* Mongoose casts a string to an ObjectId when it is 24 hexadecimal digits.
CanCastObjectId(v) == Len(v) = IdLen /\ \A i \in 1..Len(v) : v[i] \in HexChars

\* The ObjectId a castable string denotes (hexadecimal digits compare caseless).
CastObjectId(v) == toLowerCase(v)

NoId == <<>>

\* Positions of the documents whose _id is the one `id` casts to.
ById(coll, id) == Matching(coll, LAMBDA d : d._id = CastObjectId(id))

---------------------------------------------------------------------------
(* Role routes *)

\* GET /api/roles
apiGetRoles(r, u, n, f) ==
    IF Fails(f, 1) THEN Res(r, u, n, 500, [error |-> StoreError])
    ELSE Res(r, u, n, 200, [list |-> r])

\* GET /api/roles/:id
apiGetRole(r, u, n, id, f) ==
    IF ~CanCastObjectId(id) THEN Res(r, u, n, 500, [error |-> CastError(id)])
    ELSE IF Fails(f, 1) THEN Res(r, u, n, 500, [error |-> StoreError])
    ELSE IF ById(r, id) = {} THEN Res(r, u, n, 404, [error |-> Msg("Role not found", <<>>)])
    ELSE Res(r, u, n, 200, [doc |-> r[First(ById(r, id))]])

\* POST /api/roles
apiPostRoles(r, u, n, body, f) ==
    LET doc0 == RoleDefaults(CastRole(body))
        bad == RoleInvalidPaths(doc0, RolePaths)
        doc == Inserted(doc0, n)
    IN  IF bad # <<>> THEN Res(r, u, n, 400, [error |-> ValidationError("Role", bad)])
        ELSE IF Fails(f, 1) THEN Res(r, u, n, 400, [error |-> StoreError])
        ELSE IF RoleNameTaken(r, doc0.name, NoId)
             THEN Res(r, u, n, 400, [error |-> Msg("Role name already exists", <<>>)])
        ELSE Res(Append(r, doc), u, n + 1, 201, [doc |-> doc])

\* An update that lays the schema defaults over the fields it was not given.
apiPutRoleAppliesDefaults(r, u, n, id, body, f) ==
    LET upd == CastRole(body)
        bad == RoleInvalidPaths(upd, DOMAIN upd)
        i == First(ById(r, id))
        doc == Merge(r[i], RoleDefaults(upd))
    IN  IF ~CanCastObjectId(id) THEN Res(r, u, n, 400, [error |-> CastError(id)])
        ELSE IF bad # <<>> THEN Res(r, u, n, 400, [error |-> ValidationError("Role", bad)])
        ELSE IF Fails(f, 1) THEN Res(r, u, n, 400, [error |-> StoreError])
        ELSE IF ById(r, id) = {} THEN Res(r, u, n, 404, [error |-> Msg("Role not found", <<>>)])
        ELSE IF Has(upd, "name") /\ RoleNameTaken(r, upd.name, r[i]._id)
             THEN Res(r, u, n, 400, [error |-> DuplicateKeyError(upd.name)])
        ELSE Res(Replace(r, i, doc), u, n, 200, [doc |-> doc])

\* PUT /api/roles/:id
apiPutRole(r, u, n, id, body, f) ==
    LET upd == CastRole(body)
        bad == RoleInvalidPaths(upd, DOMAIN upd)
        i == First(ById(r, id))
        doc == Merge(r[i], upd)
    IN  IF ~CanCastObjectId(id) THEN Res(r, u, n, 400, [error |-> CastError(id)])
        ELSE IF bad # <<>> THEN Res(r, u, n, 400, [error |-> ValidationError("Role", bad)])
        ELSE IF Fails(f, 1) THEN Res(r, u, n, 400, [error |-> StoreError])
        ELSE IF ById(r, id) = {} THEN Res(r, u, n, 404, [error |-> Msg("Role not found", <<>>)])
        ELSE IF Has(upd, "name") /\ RoleNameTaken(r, upd.name, r[i]._id)
             THEN Res(r, u, n, 400, [error |-> DuplicateKeyError(upd.name)])
        ELSE Res(Replace(r, i, doc), u, n, 200, [doc |-> doc])

\* A delete of a Role that removes the Accounts referring to it as well.
apiDeleteRoleCascade(r, u, n, id, f) ==
    IF ~CanCastObjectId(id) THEN Res(r, u, n, 500, [error |-> CastError(id)])
    ELSE IF Fails(f, 1) THEN Res(r, u, n, 500, [error |-> StoreError])
    ELSE IF ById(r, id) = {} THEN Res(r, u, n, 404, [error |-> Msg("Role not found", <<>>)])
    ELSE Res(Remove(r, First(ById(r, id))),
             SelectSeq(u, LAMBDA d : d.role # r[First(ById(r, id))]._id),
             n, 200, [message |-> "Role deleted successfully"])

\* DELETE /api/roles/:id
apiDeleteRole(r, u, n, id, f) ==
    IF ~CanCastObjectId(id) THEN Res(r, u, n, 500, [error |-> CastError(id)])
    ELSE IF Fails(f, 1) THEN Res(r, u, n, 500, [error |-> StoreError])
    ELSE IF ById(r, id) = {} THEN Res(r, u, n, 404, [error |-> Msg("Role not found", <<>>)])
    ELSE Res(Remove(r, First(ById(r, id))), u, n, 200, [message |-> "Role deleted successfully"])

---------------------------------------------------------------------------
(* User schema *)

sMidnight == <<"T", "0", "0", ":", "0", "0", ":", "0", "0", ".", "0", "0", "0", "Z">>

\* type: Date.  A YYYY-MM-DD string becomes the date at midnight UTC, which a
\* response carries as an ISO timestamp.
CastDate(v) == v \o sMidnight

\* An email setter without lowercase: true.
CastUserKeepsCase(body) ==
    [k \in DOMAIN body |->
        IF k \in {"firstName", "lastName", "email", "phone"} THEN Trim(body[k])
        ELSE IF k = "role" /\ CanCastObjectId(body[k]) THEN CastObjectId(body[k])
        ELSE IF k = "dateOfBirth" THEN CastDate(body[k])
        ELSE body[k]]

\* Setters of userSchema: firstName, lastName and phone are trimmed, email is
\* lower-cased and trimmed.
CastUser(body) ==
    [k \in DOMAIN body |->
        IF k \in {"firstName", "lastName", "phone"} THEN Trim(body[k])
        ELSE IF k = "email" THEN Trim(toLowerCase(body[k]))
        ELSE IF k = "role" /\ CanCastObjectId(body[k]) THEN CastObjectId(body[k])
        ELSE IF k = "dateOfBirth" THEN CastDate(body[k])
        ELSE body[k]]

\* The paths of a user that fail validation among the paths in `paths`, in
\* schema order: the required strings non-empty, password at least 6
\* characters, role required and an ObjectId.
UserInvalidPaths(doc, paths) ==
    SelectSeq(<<"firstName", "lastName", "email", "password", "role">>,
        LAMBDA k :
            /\ k \in paths
            /\ \/ ~Has(doc, k)
               \/ doc[k] = <<>>
               \/ k = "password" /\ Len(doc[k]) < MinPasswordLen
               \/ k = "role" /\ ~CanCastObjectId(doc[k]))

UserPaths == {"firstName", "lastName", "email", "password", "phone", "dateOfBirth", "role", "isActive"}

\* Defaults of userSchema on a new document: isActive true.
UserDefaults(doc) == Merge([isActive |-> TRUE], doc)

\* userSchema.pre('save'): the password of a new document is replaced by its hash.
PreSave(doc) == With(doc, "password", Hash(doc.password))

\* A user collection without the unique index on email.
EmailNeverTaken(u, email, self) == FALSE

\* The unique index on email: another user holds exactly this email.
EmailTaken(u, email, self) ==
    \E i \in 1..Len(u) : u[i]._id # self /\ u[i].email = email

NullRole == [isNull |-> TRUE]

\* .populate('role', 'name description'): the referenced role's _id, name and
\* description, or null when no role has that _id.
Populate(r, rid) ==
    IF Matching(r, LAMBDA d : d._id = rid) = {} THEN NullRole
    ELSE LET d == r[First(Matching(r, LAMBDA x : x._id = rid))]
         IN  [isNull |-> FALSE, _id |-> d._id, name |-> d.name, description |-> d.description]

\* A projection that forgets .select('-password').
ViewKeepsPassword(r, doc) == With(doc, "role", Populate(r, doc.role))

\* .populate('role', 'name description').select('-password')
View(r, doc) == With(Without(doc, "password"), "role", Populate(r, doc.role))

---------------------------------------------------------------------------
(* User routes *)

\* GET /api/users
apiGetUsers(r, u, n, f) ==
    IF Fails(f, 1) \/ (u # <<>> /\ Fails(f, 2)) THEN Res(r, u, n, 500, [error |-> StoreError])
    ELSE Res(r, u, n, 200, [list |-> [i \in 1..Len(u) |-> View(r, u[i])]])

\* A findById that answers a failed store call as if nothing were found.
apiGetUserHidesOutage(r, u, n, id, f) ==
    IF ~CanCastObjectId(id) THEN Res(r, u, n, 500, [error |-> CastError(id)])
    ELSE IF Fails(f, 1) \/ ById(u, id) = {}
         THEN Res(r, u, n, 404, [error |-> Msg("User not found", <<>>)])
    ELSE IF Fails(f, 2) THEN Res(r, u, n, 500, [error |-> StoreError])
    ELSE Res(r, u, n, 200, [doc |-> View(r, u[First(ById(u, id))])])

\* GET /api/users/:id
apiGetUser(r, u, n, id, f) ==
    IF ~CanCastObjectId(id) THEN Res(r, u, n, 500, [error |-> CastError(id)])
    ELSE IF Fails(f, 1) THEN Res(r, u, n, 500, [error |-> StoreError])
    ELSE IF ById(u, id) = {} THEN Res(r, u, n, 404, [error |-> Msg("User not found", <<>>)])
    ELSE IF Fails(f, 2) THEN Res(r, u, n, 500, [error |-> StoreError])
    ELSE Res(r, u, n, 200, [doc |-> View(r, u[First(ById(u, id))])])

\* POST /api/users
apiPostUsers(r, u, n, body, f) ==
    LET doc0 == UserDefaults(CastUser(body))
        bad == UserInvalidPaths(doc0, UserPaths)
        doc == Inserted(PreSave(doc0), n)
    IN  IF bad # <<>> THEN Res(r, u, n, 400, [error |-> ValidationError("User", bad)])
        ELSE IF Fails(f, 1) THEN Res(r, u, n, 400, [error |-> StoreError])
        ELSE IF EmailTaken(u, doc0.email, NoId)
             THEN Res(r, u, n, 400, [error |-> Msg("Email already exists", <<>>)])
        ELSE IF Fails(f, 2) THEN Res(r, Append(u, doc), n + 1, 400, [error |-> StoreError])
        ELSE Res(r, Append(u, doc), n + 1, 201, [doc |-> View(r, doc)])

\* An update on which the save hook runs as well and hashes the hash.
HashBodyPasswordTwice(body) ==
    IF Has(body, "password") /\ body.password # <<>>
    THEN With(body, "password", Hash(Hash(body.password)))
    ELSE body

\* The first lines of PUT /api/users/:id: a password in the body is hashed.
HashBodyPassword(body) ==
    IF Has(body, "password") /\ body.password # <<>>
    THEN With(body, "password", Hash(body.password))
    ELSE body

\* PUT /api/users/:id
apiPutUser(r, u, n, id, body, f) ==
    LET upd == CastUser(HashBodyPassword(body))
        bad == UserInvalidPaths(upd, DOMAIN upd)
        i == First(ById(u, id))
        doc == Merge(u[i], upd)
    IN  IF ~CanCastObjectId(id) THEN Res(r, u, n, 400, [error |-> CastError(id)])
        ELSE IF Has(body, "role") /\ body.role # <<>> /\ ~CanCastObjectId(body.role)
             THEN Res(r, u, n, 400, [error |-> CastError(body.role)])
        ELSE IF bad # <<>> THEN Res(r, u, n, 400, [error |-> ValidationError("User", bad)])
        ELSE IF Fails(f, 1) THEN Res(r, u, n, 400, [error |-> StoreError])
        ELSE IF ById(u, id) = {} THEN Res(r, u, n, 404, [error |-> Msg("User not found", <<>>)])
        ELSE IF Has(upd, "email") /\ EmailTaken(u, upd.email, u[i]._id)
             THEN Res(r, u, n, 400, [error |-> DuplicateKeyError(upd.email)])
        ELSE IF Fails(f, 2) THEN Res(r, Replace(u, i, doc), n, 400, [error |-> StoreError])
        ELSE Res(r, Replace(u, i, doc), n, 200, [doc |-> View(r, doc)])

\* DELETE /api/users/:id
apiDeleteUser(r, u, n, id, f) ==
    IF ~CanCastObjectId(id) THEN Res(r, u, n, 500, [error |-> CastError(id)])
    ELSE IF Fails(f, 1) THEN Res(r, u, n, 500, [error |-> StoreError])
    ELSE IF ById(u, id) = {} THEN Res(r, u, n, 404, [error |-> Msg("User not found", <<>>)])
    ELSE Res(r, Remove(u, First(ById(u, id))), n, 200, [message |-> "User deleted successfully"])

---------------------------------------------------------------------------
(* Seed route *)

SeedAdminRole ==
    [name |-> sAdmin, description |-> sAdminDesc,
     permissions |-> <<"read", "write", "delete", "admin">>, isActive |-> TRUE]

SeedUserRole ==
    [name |-> sUser, description |-> sUserDesc, permissions |-> <<"read">>, isActive |-> TRUE]

SeedAdminUser(roleId) ==
    [firstName |-> sAdminFirst, lastName |-> sAdminLast, email |-> sAdminEmail,
     password |-> sAdminPassword, phone |-> sAdminPhone, role |-> roleId, isActive |-> TRUE]

\* An upsert that writes the fields only when it inserts ($setOnInsert).
UpsertKeepsMatch(coll, n, key, fields) ==
    LET S == Matching(coll, LAMBDA d : d[key] = fields[key])
    IN  IF S = {}
        THEN [coll |-> Append(coll, Inserted(fields, n)), nid |-> n + 1,
              doc |-> Inserted(fields, n)]
        ELSE [coll |-> coll, nid |-> n, doc |-> coll[First(S)]]

\* An upsert that adds the updated document instead of replacing the match.
UpsertAddsCopy(coll, n, key, fields) ==
    LET S == Matching(coll, LAMBDA d : d[key] = fields[key])
    IN  IF S = {}
        THEN [coll |-> Append(coll, Inserted(fields, n)), nid |-> n + 1,
              doc |-> Inserted(fields, n)]
        ELSE [coll |-> Append(coll, Merge(coll[First(S)], fields)), nid |-> n,
              doc |-> Merge(coll[First(S)], fields)]

\* findOneAndUpdate(filter, fields, { upsert: true, new: true }) with the filter
\* `key = fields[key]`: the first matching document gets the fields set, or a
\* new document with the fields is inserted.  No validator and no save hook runs.
\* The result is the collection, the id counter and the document.
Upsert(coll, n, key, fields) ==
    LET S == Matching(coll, LAMBDA d : d[key] = fields[key])
    IN  IF S = {}
        THEN [coll |-> Append(coll, Inserted(fields, n)), nid |-> n + 1,
              doc |-> Inserted(fields, n)]
        ELSE [coll |-> Replace(coll, First(S), Merge(coll[First(S)], fields)), nid |-> n,
              doc |-> Merge(coll[First(S)], fields)]

\* A seed that undoes the role upserts when the account upsert fails.
apiSeedRollsBack(r, u, n, f) ==
    LET a == Upsert(r, n, "name", SeedAdminRole)
        b == Upsert(a.coll, a.nid, "name", SeedUserRole)
        c == Upsert(u, b.nid, "email", SeedAdminUser(a.doc._id))
    IN  IF Fails(f, 1) THEN Res(r, u, n, 500, [error |-> StoreError])
        ELSE IF Fails(f, 2) THEN Res(a.coll, u, a.nid, 500, [error |-> StoreError])
        ELSE IF Fails(f, 3) THEN Res(r, u, n, 500, [error |-> StoreError])
        ELSE Res(b.coll, c.coll, c.nid, 200,
                 [message |-> "Seed data created successfully",
                  roles |-> <<a.doc, b.doc>>, users |-> <<c.doc>>])

\* POST /api/seed
apiSeed(r, u, n, f) ==
    LET a == Upsert(r, n, "name", SeedAdminRole)
        b == Upsert(a.coll, a.nid, "name", SeedUserRole)
        c == Upsert(u, b.nid, "email", SeedAdminUser(a.doc._id))
    IN  IF Fails(f, 1) THEN Res(r, u, n, 500, [error |-> StoreError])
        ELSE IF Fails(f, 2) THEN Res(a.coll, u, a.nid, 500, [error |-> StoreError])
        ELSE IF Fails(f, 3) THEN Res(b.coll, u, b.nid, 500, [error |-> StoreError])
        ELSE Res(b.coll, c.coll, c.nid, 200,
                 [message |-> "Seed data created successfully",
                  roles |-> <<a.doc, b.doc>>, users |-> <<c.doc>>])

---------------------------------------------------------------------------
(* MCP tools: transport and envelopes *)

\* error.message of an axios request that got no response.
NetError == Msg("connect ECONNREFUSED", <<>>)

\* error.message of an axios request answered with a status outside 2xx.
StatusError == Msg("Request failed with status code", <<>>)

\* error.message of the TypeError of reading a property of null or undefined.
TypeError(what) == Msg("Cannot read properties of", <<what>>)

sNull == <<"n", "u", "l", "l">>

NoBody == [none |-> TRUE]

NoEnvelope == [kind |-> "none", tmpl |-> <<>>, vals |-> <<>>]

\* { content: [{ type: 'text', text }] } of a tool's try block
Success(t, v) == [kind |-> "success", tmpl |-> <<t>>, vals |-> v]

\* A catch block that rethrows instead of rendering a failure envelope.
FailureRethrown(prefix, m) == [kind |-> "exception", tmpl |-> <<prefix>> \o m.tmpl, vals |-> m.vals]

\* { content: [{ type: 'text', text }] } of a tool's catch block:
\* `${prefix}${error.response?.data?.error || error.message}`
Failure(prefix, m) == [kind |-> "failure", tmpl |-> <<prefix>> \o m.tmpl, vals |-> m.vals]

\* An McpError thrown out of the tool-call handler.
Thrown(m) == [kind |-> "exception", tmpl |-> m.tmpl, vals |-> m.vals]

\* What a tool call leaves behind: the collections, the id counter, the last
\* REST response (status 0 when there was none), the envelope, and the HTTP
\* requests issued.
ToolRes(r, u, n, status, body, env, http) ==
    [roles |-> r, users |-> u, nid |-> n, status |-> status, body |-> body, env |-> env, http |-> http]

\* the fault as the next request sees it, after `calls` store calls
Shift(f, calls) == IF f > calls THEN f - calls ELSE 0

\* args[k], or nothing when the field is undefined
Maybe(args, k) == IF Has(args, k) THEN <<args[k]>> ELSE <<>>

\* `${x}` of a possibly undefined string
Str(m) == IF m = <<>> THEN sUndefined ELSE m[1]

\* if (x): a defined, non-empty string
Truthy(m) == m # <<>> /\ m[1] # <<>>

\* catch (error) { throw new Error(`Failed to resolve role: ${error.message}`) }
ResolveFail(m) ==
    [ok |-> FALSE, err |-> Wrap("Failed to resolve role: ", m),
     http |-> <<"GET /api/roles">>, calls |-> 1]

\* A resolver that hands an unmatched name on as if it were an identifier.
RoleNotFoundPassThrough(name) ==
    [ok |-> TRUE, id |-> name, http |-> <<"GET /api/roles">>, calls |-> 1]

\* if (!role) throw new Error(`Role '${roleIdentifier}' not found`)
RoleNotFound(name) == ResolveFail(Msg("Role not found", <<name>>))

\* resolveRoleId(roleIdentifier): ok and the id, or the message of the Error it
\* throws; the HTTP requests it issued; the store calls they made.
resolveRoleId(r, u, n, arg, net, f) ==
    LET res == apiGetRoles(r, u, n, f)
        S == Matching(res.body.list, LAMBDA d : toLowerCase(d.name) = toLowerCase(arg[1]))
    IN  IF IsObjectIdShape(Str(arg))
        THEN [ok |-> TRUE, id |-> Str(arg), http |-> <<>>, calls |-> 0]
        ELSE IF ~net THEN ResolveFail(NetError)
        ELSE IF res.status # 200 THEN ResolveFail(StatusError)
        ELSE IF arg = <<>>
             THEN IF res.body.list = <<>> THEN RoleNotFound(sUndefined)
                  ELSE ResolveFail(TypeError(sUndefined))
        ELSE IF S = {} THEN RoleNotFound(arg[1])
        ELSE [ok |-> TRUE, id |-> res.body.list[First(S)]._id,
              http |-> <<"GET /api/roles">>, calls |-> 1]

\* ${user.isActive ? 'Active' : 'Inactive'}
StatusText(d) == IF d.isActive THEN sActive ELSE sInactive

\* ${user.phone || 'Not provided'}
OrNotProvided(d, k) == IF Has(d, k) /\ d[k] # <<>> THEN d[k] ELSE sNotProvided

\* new Date(v).toDateString(): the calendar date of the timestamp.
toDateString(v) == SubSeq(v, 1, Len(v) - Len(sMidnight))

\* ${user.dateOfBirth ? new Date(user.dateOfBirth).toDateString() : 'Not provided'}
DateOrNotProvided(d, k) == IF Has(d, k) THEN toDateString(d[k]) ELSE sNotProvided

---------------------------------------------------------------------------
(* MCP tools: user operations.  fault = [net, db]: net is whether the REST   *)
(* API answers, db is the store call of the invocation that fails (0 none).  *)

\* The text values of the created / updated user; reading role.name of a null
\* role throws a TypeError.
UserSummary(d) == <<d.firstName, d.lastName, d.email, d.role.name>>

\* A request that got no response: the catch block renders error.message.
Unanswered(r, u, n, pre, http) == ToolRes(r, u, n, 0, NoBody, Failure(pre, NetError), http)

\* A response with an error status: the catch block renders its error field.
Caught(pre, http, res) ==
    ToolRes(res.roles, res.users, res.nid, res.status, res.body, Failure(pre, res.body.error), http)

\* A response with a success status, and the envelope made of it.
Answered(res, env, http) ==
    ToolRes(res.roles, res.users, res.nid, res.status, res.body, env, http)

\* createUser(args), from the response of axios.post on
createUserReply(r, u, n, net, pre, http, post) ==
    IF ~net THEN Unanswered(r, u, n, pre, http)
    ELSE IF post.status # 201 THEN Caught(pre, http, post)
    ELSE IF post.body.doc.role.isNull THEN Answered(post, Failure(pre, TypeError(sNull)), http)
    ELSE Answered(post, Success("User created successfully!",
                                UserSummary(post.body.doc) \o <<post.body.doc._id>>), http)

\* createUser(args), from the outcome of resolveRoleId(args.role) on
createUserResolved(r, u, n, args, fault, pre, rr) ==
    IF ~rr.ok THEN ToolRes(r, u, n, 0, NoBody, Failure(pre, rr.err), rr.http)
    ELSE createUserReply(r, u, n, fault.net, pre, rr.http \o <<"POST /api/users">>,
                         apiPostUsers(r, u, n, With(args, "role", rr.id), Shift(fault.db, rr.calls)))

\* createUser(args)
createUser(r, u, n, args, fault) ==
    createUserResolved(r, u, n, args, fault, "Failed to create user: ",
                       resolveRoleId(r, u, n, Maybe(args, "role"), fault.net, fault.db))

\* The text values of one line of the user list.
UserLine(d) == <<d.firstName, d.lastName, d.email, d.role.name, StatusText(d)>>

RECURSIVE Flatten(_)
Flatten(ss) == IF ss = <<>> THEN <<>> ELSE Head(ss) \o Flatten(Tail(ss))

\* The text values of the details of one user.
UserDetails(d) ==
    <<d._id, d.firstName, d.lastName, d.email, OrNotProvided(d, "phone"),
      DateOrNotProvided(d, "dateOfBirth"), d.role.name, d.role.description, StatusText(d)>>

\* getUsers(args) with an id, from the response on.  createdAt is not modelled.
getUserReply(r, u, n, net, pre, http, one) ==
    IF ~net THEN Unanswered(r, u, n, pre, http)
    ELSE IF one.status # 200 THEN Caught(pre, http, one)
    ELSE IF one.body.doc.role.isNull THEN Answered(one, Failure(pre, TypeError(sNull)), http)
    ELSE Answered(one, Success("User Details:", UserDetails(one.body.doc)), http)

\* The envelope of a list of users: reading role.name of a null role throws.
UserListEnvelope(pre, l) ==
    IF l = <<>> THEN Success("No users found in the system.", <<>>)
    ELSE IF \E i \in 1..Len(l) : l[i].role.isNull THEN Failure(pre, TypeError(sNull))
    ELSE Success("Found user(s):", Flatten([i \in 1..Len(l) |-> UserLine(l[i])]))

\* getUsers(args) without an id, from the response on
getUserListReply(r, u, n, net, pre, http, all) ==
    IF ~net THEN Unanswered(r, u, n, pre, http)
    ELSE IF all.status # 200 THEN Caught(pre, http, all)
    ELSE Answered(all, UserListEnvelope(pre, all.body.list), http)

\* getUsers(args)
getUsers(r, u, n, args, fault) ==
    IF Truthy(Maybe(args, "id"))
    THEN getUserReply(r, u, n, fault.net, "Failed to retrieve users: ", <<"GET /api/users/:id">>,
                      apiGetUser(r, u, n, Str(Maybe(args, "id")), fault.db))
    ELSE getUserListReply(r, u, n, fault.net, "Failed to retrieve users: ", <<"GET /api/users">>,
                          apiGetUsers(r, u, n, fault.db))

\* updateUser(args), from the response of axios.put on
updateUserReply(r, u, n, net, pre, http, put) ==
    IF ~net THEN Unanswered(r, u, n, pre, http)
    ELSE IF put.status # 200 THEN Caught(pre, http, put)
    ELSE IF put.body.doc.role.isNull THEN Answered(put, Failure(pre, TypeError(sNull)), http)
    ELSE Answered(put, Success("User updated successfully!", UserSummary(put.body.doc)), http)

\* An updateUser that resolves the role and sends the argument as it came.
updateUserSendsName(r, u, n, args, fault, pre, rr) ==
    IF ~rr.ok THEN ToolRes(r, u, n, 0, NoBody, Failure(pre, rr.err), rr.http)
    ELSE updateUserReply(r, u, n, fault.net, pre, rr.http \o <<"PUT /api/users/:id">>,
                         apiPutUser(r, u, n, Str(Maybe(args, "id")), Without(args, "id"),
                                    Shift(fault.db, rr.calls)))

\* updateUser(args) when updateData.role is set, from the outcome of
\* resolveRoleId on
updateUserResolved(r, u, n, args, fault, pre, rr) ==
    IF ~rr.ok THEN ToolRes(r, u, n, 0, NoBody, Failure(pre, rr.err), rr.http)
    ELSE updateUserReply(r, u, n, fault.net, pre, rr.http \o <<"PUT /api/users/:id">>,
                         apiPutUser(r, u, n, Str(Maybe(args, "id")),
                                    With(Without(args, "id"), "role", rr.id),
                                    Shift(fault.db, rr.calls)))

\* updateUser(args)
updateUser(r, u, n, args, fault) ==
    IF Truthy(Maybe(args, "role"))
    THEN updateUserResolved(r, u, n, args, fault, "Failed to update user: ",
                            resolveRoleId(r, u, n, Maybe(args, "role"), fault.net, fault.db))
    ELSE updateUserReply(r, u, n, fault.net, "Failed to update user: ", <<"PUT /api/users/:id">>,
                         apiPutUser(r, u, n, Str(Maybe(args, "id")), Without(args, "id"), fault.db))

\* deleteUser(args) and deleteRole(args), from the response on
deleteReply(r, u, n, net, pre, http, del, text) ==
    IF ~net THEN Unanswered(r, u, n, pre, http)
    ELSE IF del.status # 200 THEN Caught(pre, http, del)
    ELSE Answered(del, Success(text, <<>>), http)

\* deleteUser(args)
deleteUser(r, u, n, args, fault) ==
    deleteReply(r, u, n, fault.net, "Failed to delete user: ", <<"DELETE /api/users/:id">>,
                apiDeleteUser(r, u, n, Str(Maybe(args, "id")), fault.db),
                "User deleted successfully!")

---------------------------------------------------------------------------
(* MCP tools: role operations and seed *)

\* The text values of a created or updated role.
RoleSummary(d) == <<d.name, d.description, d.permissions>>

\* createRole(args), from the response on
createRoleReply(r, u, n, net, pre, http, post) ==
    IF ~net THEN Unanswered(r, u, n, pre, http)
    ELSE IF post.status # 201 THEN Caught(pre, http, post)
    ELSE Answered(post, Success("Role created successfully!",
                                RoleSummary(post.body.doc) \o <<post.body.doc._id>>), http)

\* createRole(args)
createRole(r, u, n, args, fault) ==
    createRoleReply(r, u, n, fault.net, "Failed to create role: ", <<"POST /api/roles">>,
                    apiPostRoles(r, u, n, args, fault.db))

\* The text values of one line of the role list.
RoleLine(d) == <<d.name, d.description, d.permissions, StatusText(d)>>

\* The text values of the details of one role.
RoleDetails(d) == <<d._id, d.name, d.description, d.permissions, StatusText(d)>>

\* getRoles(args) with an id, from the response on.  createdAt is not modelled.
getRoleReply(r, u, n, net, pre, http, one) ==
    IF ~net THEN Unanswered(r, u, n, pre, http)
    ELSE IF one.status # 200 THEN Caught(pre, http, one)
    ELSE Answered(one, Success("Role Details:", RoleDetails(one.body.doc)), http)

\* The envelope of a list of roles.
RoleListEnvelope(l) ==
    IF l = <<>> THEN Success("No roles found in the system.", <<>>)
    ELSE Success("Found role(s):", Flatten([i \in 1..Len(l) |-> RoleLine(l[i])]))

\* getRoles(args) without an id, from the response on
getRoleListReply(r, u, n, net, pre, http, all) ==
    IF ~net THEN Unanswered(r, u, n, pre, http)
    ELSE IF all.status # 200 THEN Caught(pre, http, all)
    ELSE Answered(all, RoleListEnvelope(all.body.list), http)

\* getRoles(args)
getRoles(r, u, n, args, fault) ==
    IF Truthy(Maybe(args, "id"))
    THEN getRoleReply(r, u, n, fault.net, "Failed to retrieve roles: ", <<"GET /api/roles/:id">>,
                      apiGetRole(r, u, n, Str(Maybe(args, "id")), fault.db))
    ELSE getRoleListReply(r, u, n, fault.net, "Failed to retrieve roles: ", <<"GET /api/roles">>,
                          apiGetRoles(r, u, n, fault.db))

\* updateRole(args), from the response on
updateRoleReply(r, u, n, net, pre, http, put) ==
    IF ~net THEN Unanswered(r, u, n, pre, http)
    ELSE IF put.status # 200 THEN Caught(pre, http, put)
    ELSE Answered(put, Success("Role updated successfully!", RoleSummary(put.body.doc)), http)

\* updateRole(args)
updateRole(r, u, n, args, fault) ==
    updateRoleReply(r, u, n, fault.net, "Failed to update role: ", <<"PUT /api/roles/:id">>,
                    apiPutRole(r, u, n, Str(Maybe(args, "id")), Without(args, "id"), fault.db))

\* deleteRole(args)
deleteRole(r, u, n, args, fault) ==
    deleteReply(r, u, n, fault.net, "Failed to delete role: ", <<"DELETE /api/roles/:id">>,
                apiDeleteRole(r, u, n, Str(Maybe(args, "id")), fault.db),
                "Role deleted successfully!")

\* seedDatabase(), from the response on: the success text ends with the
\* default admin login, "Email: admin@example.com" and "Password: admin123".
seedReply(r, u, n, net, pre, http, seed) ==
    IF ~net THEN Unanswered(r, u, n, pre, http)
    ELSE IF seed.status # 200 THEN Caught(pre, http, seed)
    ELSE Answered(seed, Success("Database seeded successfully!", <<sAdminEmail, sAdminPassword>>), http)

\* seedDatabase()
seedDatabase(r, u, n, fault) ==
    seedReply(r, u, n, fault.net, "Failed to seed database: ", <<"POST /api/seed">>,
              apiSeed(r, u, n, fault.db))

ToolNames ==
    {"create_user", "get_users", "update_user", "delete_user", "create_role",
     "get_roles", "update_role", "delete_role", "seed_database"}

\* The CallToolRequestSchema handler: the switch on the tool name; an unknown
\* name throws an McpError.
CallTool(r, u, n, name, args, fault) ==
    CASE name = "create_user" -> createUser(r, u, n, args, fault)
      [] name = "get_users" -> getUsers(r, u, n, args, fault)
      [] name = "update_user" -> updateUser(r, u, n, args, fault)
      [] name = "delete_user" -> deleteUser(r, u, n, args, fault)
      [] name = "create_role" -> createRole(r, u, n, args, fault)
      [] name = "get_roles" -> getRoles(r, u, n, args, fault)
      [] name = "update_role" -> updateRole(r, u, n, args, fault)
      [] name = "delete_role" -> deleteRole(r, u, n, args, fault)
      [] name = "seed_database" -> seedDatabase(r, u, n, fault)
      [] OTHER -> ToolRes(r, u, n, 0, NoBody, Thrown(Msg("Unknown tool", <<>>)), <<>>)

---------------------------------------------------------------------------
(* Inputs *)

EmptyBag == [k \in {} |-> <<>>]

sDob == <<"1", "9", "9", "0", "-", "0", "1", "-", "0", "1">>

\* Identifiers a caller may name: every one the store can hand out, and a
\* string that is no ObjectId.
IdInputs == {ObjectId(k) : k \in 1..MaxIds} \cup {sBadId}

RoleBodies ==
    { [name |-> sAdmin, description |-> sDesc, permissions |-> <<"read">>],
      [name |-> sAdminCap, description |-> sDesc, permissions |-> <<"read">>],
      [name |-> sAdminPad, description |-> sBlank, permissions |-> <<"read">>],
      [name |-> sMgr, permissions |-> <<"read">>],
      [name |-> sUser, description |-> sDesc, permissions |-> <<"execute">>] }

RoleUpdates ==
    { [name |-> sAdminCap],
      [permissions |-> <<"execute">>],
      [name |-> sEmpty] }

\* Account field sets without the role reference.
UserBodies ==
    { [firstName |-> sJohn, lastName |-> sDoe, email |-> sJohnEmail, password |-> sSecret,
       phone |-> sPhone, dateOfBirth |-> sDob],
      [firstName |-> sJohn, lastName |-> sDoe, email |-> sJohnEmailLow, password |-> sSecret,
       phone |-> sPhone, dateOfBirth |-> sDob],
      [firstName |-> sAl, lastName |-> sEmpty, email |-> sJohnEmail, password |-> sShort] }

UserUpdates ==
    { [email |-> sAdminEmail],
      [password |-> sShort],
      [password |-> sEmpty] }

\* Role references given to the REST routes: identifiers, a name, or none.
RestRoleRefs == {<<ObjectId(1)>>, <<ObjectId(2)>>, <<sAdmin>>, <<>>}

\* Role references given to the tools: an identifier, names, or none.
ToolRoleRefs == {<<ObjectId(2)>>, <<sAdminCap>>, <<sAdminUp>>, <<sMgr>>, <<>>}

\* a bag with the role reference laid in, when there is one
WithRole(bag, ref) == IF ref = <<>> THEN bag ELSE With(bag, "role", ref[1])

\* Partial account field sets: the updates above, or a role reference alone.
UserUpdateBodies(refs) == UserUpdates \cup {[role |-> ref[1]] : ref \in refs \ {<<>>}}

WithId(bag, id) == With(bag, "id", id)

\* The argument bags each tool is called with.
ToolArgs(name) ==
    CASE name = "create_user" -> {WithRole(b, ref) : b \in UserBodies, ref \in ToolRoleRefs}
      [] name = "update_user" ->
            {WithId(body, id) : body \in UserUpdateBodies(ToolRoleRefs), id \in IdInputs}
      [] name \in {"create_role"} -> RoleBodies
      [] name = "update_role" -> {WithId(body, id) : body \in RoleUpdates, id \in IdInputs}
      [] name \in {"get_users", "get_roles"} -> {EmptyBag} \cup {[id |-> id] : id \in IdInputs}
      [] name \in {"delete_user", "delete_role"} -> {[id |-> id] : id \in IdInputs}
      [] OTHER -> {EmptyBag}

\* The store calls a tool's requests make at most.
StoreCalls(name) ==
    CASE name \in {"create_user", "update_user", "seed_database"} -> 3
      [] name = "get_users" -> 2
      [] OTHER -> 1

\* The faults of one tool invocation: the REST API does not answer, or the
\* k-th store call of the invocation fails.
ToolFaults(calls) ==
    {[net |-> TRUE, db |-> f] : f \in {k \in 1..MaxDbCalls : k <= calls}} \cup {[net |-> FALSE, db |-> 0]}

---------------------------------------------------------------------------
(* State machine *)

\* the fault of a request sent straight to a route: the REST API answers
Db(f) == [net |-> TRUE, db |-> f]

NoOp ==
    [layer |-> "none", op |-> "none", id |-> <<>>, args |-> EmptyBag, fault |-> Db(0),
     status |-> 0, body |-> NoBody, env |-> NoEnvelope, http |-> <<>>]

NoSeed == [ids |-> <<>>, nRoles |-> 0, nUsers |-> 0]

\* The tool calls that may be in flight at once: each handler is an async
\* function that gives way at every await.
Tasks == {1, 2}

\* A task that serves no call.  Of a call in flight a task keeps the name and
\* the arguments, the await it stands at, the role identifier it holds, the
\* identifier of the document it wrote, whether its upsert found no match, and
\* the status and the envelope it ended with.
IdleTask ==
    [op |-> "none", args |-> EmptyBag, pc |-> "idle", rid |-> <<>>, made |-> <<>>,
     miss |-> FALSE, status |-> 0, env |-> NoEnvelope]

\* The identifiers a successful seed returned and the collection sizes it left,
\* when the last operation was one.
SeedSummary ==
    IF last.op \in {"POST /api/seed", "seed_database"} /\ last.status = 200
    THEN [ids |-> <<last.body.roles[1]._id, last.body.roles[2]._id, last.body.users[1]._id>>,
          nRoles |-> Len(roles), nUsers |-> Len(users)]
    ELSE NoSeed

Commit(layer, op, id, args, fault, res) ==
    /\ last.op = "none"
    /\ res.nid <= MaxIds + 1
    /\ roles' = res.roles
    /\ users' = res.users
    /\ nextId' = res.nid
    /\ last' = [layer |-> layer, op |-> op, id |-> id, args |-> args, fault |-> fault,
                status |-> res.status, body |-> res.body, env |-> res.env, http |-> res.http]
    /\ UNCHANGED <<prevSeed, tasks>>

\* A REST response seen by a direct caller of the route.
Direct(res) == ToolRes(res.roles, res.users, res.nid, res.status, res.body, NoEnvelope, <<>>)

GetRoles ==
    Commit("rest", "GET /api/roles", <<>>, EmptyBag, Db(0), Direct(apiGetRoles(roles, users, nextId, 0)))

GetRole ==
    \E id \in IdInputs :
        Commit("rest", "GET /api/roles/:id", id, EmptyBag, Db(0),
               Direct(apiGetRole(roles, users, nextId, id, 0)))

PostRoles ==
    \E body \in RoleBodies :
        Commit("rest", "POST /api/roles", <<>>, body, Db(0),
               Direct(apiPostRoles(roles, users, nextId, body, 0)))

PutRole ==
    \E id \in IdInputs, body \in RoleUpdates :
        Commit("rest", "PUT /api/roles/:id", id, body, Db(0),
               Direct(apiPutRole(roles, users, nextId, id, body, 0)))

DeleteRole ==
    \E id \in IdInputs :
        Commit("rest", "DELETE /api/roles/:id", id, EmptyBag, Db(0),
               Direct(apiDeleteRole(roles, users, nextId, id, 0)))

GetUsers ==
    Commit("rest", "GET /api/users", <<>>, EmptyBag, Db(0), Direct(apiGetUsers(roles, users, nextId, 0)))

GetUser ==
    \E id \in IdInputs :
        Commit("rest", "GET /api/users/:id", id, EmptyBag, Db(0),
               Direct(apiGetUser(roles, users, nextId, id, 0)))

PostUsers ==
    \E b \in UserBodies, ref \in RestRoleRefs :
        Commit("rest", "POST /api/users", <<>>, WithRole(b, ref), Db(0),
               Direct(apiPostUsers(roles, users, nextId, WithRole(b, ref), 0)))

PutUser ==
    \E id \in IdInputs, body \in UserUpdateBodies(RestRoleRefs) :
        Commit("rest", "PUT /api/users/:id", id, body, Db(0),
               Direct(apiPutUser(roles, users, nextId, id, body, 0)))

DeleteUser ==
    \E id \in IdInputs :
        Commit("rest", "DELETE /api/users/:id", id, EmptyBag, Db(0),
               Direct(apiDeleteUser(roles, users, nextId, id, 0)))

Seed ==
    Commit("rest", "POST /api/seed", <<>>, EmptyBag, Db(0), Direct(apiSeed(roles, users, nextId, 0)))

\* The id argument of a tool call, as it is put into the request path.
IdArg(args) == Str(Maybe(args, "id"))

ToolCreateUser ==
    \E args \in ToolArgs("create_user") :
        Commit("tool", "create_user", IdArg(args), args, Db(0),
               CallTool(roles, users, nextId, "create_user", args, Db(0)))

ToolGetUsers ==
    \E args \in ToolArgs("get_users") :
        Commit("tool", "get_users", IdArg(args), args, Db(0),
               CallTool(roles, users, nextId, "get_users", args, Db(0)))

ToolUpdateUser ==
    \E args \in ToolArgs("update_user") :
        Commit("tool", "update_user", IdArg(args), args, Db(0),
               CallTool(roles, users, nextId, "update_user", args, Db(0)))

ToolDeleteUser ==
    \E args \in ToolArgs("delete_user") :
        Commit("tool", "delete_user", IdArg(args), args, Db(0),
               CallTool(roles, users, nextId, "delete_user", args, Db(0)))

ToolCreateRole ==
    \E args \in ToolArgs("create_role") :
        Commit("tool", "create_role", IdArg(args), args, Db(0),
               CallTool(roles, users, nextId, "create_role", args, Db(0)))

ToolGetRoles ==
    \E args \in ToolArgs("get_roles") :
        Commit("tool", "get_roles", IdArg(args), args, Db(0),
               CallTool(roles, users, nextId, "get_roles", args, Db(0)))

ToolUpdateRole ==
    \E args \in ToolArgs("update_role") :
        Commit("tool", "update_role", IdArg(args), args, Db(0),
               CallTool(roles, users, nextId, "update_role", args, Db(0)))

ToolDeleteRole ==
    \E args \in ToolArgs("delete_role") :
        Commit("tool", "delete_role", IdArg(args), args, Db(0),
               CallTool(roles, users, nextId, "delete_role", args, Db(0)))

ToolSeedDatabase ==
    Commit("tool", "seed_database", IdArg(EmptyBag), EmptyBag, Db(0),
           CallTool(roles, users, nextId, "seed_database", EmptyBag, Db(0)))

\* A tools/call request that names no tool of the server.
ToolUnknown ==
    Commit("tool", "drop_database", IdArg(EmptyBag), EmptyBag, Db(0),
           CallTool(roles, users, nextId, "drop_database", EmptyBag, Db(0)))

\* A tools/call request served while the REST API or the store fails.
ToolUnderFault ==
    \E name \in ToolNames :
        \E args \in ToolArgs(name), fault \in ToolFaults(StoreCalls(name)) :
            Commit("tool", name, IdArg(args), args, fault,
                   CallTool(roles, users, nextId, name, args, fault))

\* The response is delivered to the caller; the next request can be served.
\* What is remembered of it is what a successful seed returned.
Respond ==
    /\ last.op # "none"
    /\ last' = NoOp
    /\ prevSeed' = SeedSummary
    /\ UNCHANGED <<roles, users, nextId, tasks>>

Init ==
    /\ roles = <<>>
    /\ users = <<>>
    /\ nextId = 1
    /\ last = NoOp
    /\ prevSeed = NoSeed
    /\ tasks = [t \in Tasks |-> IdleTask]

RestStep ==
    \/ GetRoles \/ GetRole \/ PostRoles \/ PutRole \/ DeleteRole
    \/ GetUsers \/ GetUser \/ PostUsers \/ PutUser \/ DeleteUser
    \/ Seed

ToolStep ==
    \/ ToolCreateUser \/ ToolGetUsers \/ ToolUpdateUser \/ ToolDeleteUser
    \/ ToolCreateRole \/ ToolGetRoles \/ ToolUpdateRole \/ ToolDeleteRole
    \/ ToolSeedDatabase \/ ToolUnknown

\* The service while the REST API and the store are up.
Next == RestStep \/ ToolStep \/ Respond

Spec == Init /\ [][Next]_vars

\* The tools while the REST API or the store may fail.
NextFaults == ToolStep \/ ToolUnderFault \/ Respond

SpecFaults == Init /\ [][NextFaults]_vars

---------------------------------------------------------------------------
(* Tool calls in flight together.  A handler runs to its next await, which   *)
(* is a request to the REST API; a route runs to its next await, which is a  *)
(* call of the store.  The store serves one call at a time, and its unique   *)
(* indexes are checked with the write.                                       *)

\* The calls that are put in flight together.
ConcCalls ==
    {[op |-> "create_user", args |-> WithRole(b, <<sAdminCap>>)] : b \in UserBodies}
        \cup {[op |-> "update_user", args |-> WithId([role |-> sUser], ObjectId(k))] : k \in 1..MaxIds}
        \cup {[op |-> "create_role", args |-> b] : b \in {c \in RoleBodies : Trim(c.name) = sAdmin}}
        \cup {[op |-> "delete_role", args |-> [id |-> ObjectId(k)]] : k \in 1..MaxIds}
        \cup {[op |-> "seed_database", args |-> EmptyBag]}

\* The await a call stands at first: resolveRoleId for createUser and for an
\* updateUser with a role, the first upsert for the seed, the one request of
\* the other tools.
FirstAwait(call) ==
    IF call.op = "create_user" \/ (call.op = "update_user" /\ Truthy(Maybe(call.args, "role")))
    THEN "resolve"
    ELSE IF call.op = "seed_database" THEN "admin" ELSE "write"

\* The prefix of the failure text of a tool.
Prefix(op) ==
    CASE op = "create_user" -> "Failed to create user: "
      [] op = "update_user" -> "Failed to update user: "
      [] op = "create_role" -> "Failed to create role: "
      [] op = "delete_role" -> "Failed to delete role: "
      [] op = "seed_database" -> "Failed to seed database: "

\* The task as it stands after a change of some of its fields.
Moved(t, change) == [tasks EXCEPT ![t] = Merge(@, change)]

\* The store as a route result leaves it.
Stored(res) ==
    /\ res.nid <= MaxIds + 1
    /\ roles' = res.roles
    /\ users' = res.users
    /\ nextId' = res.nid

\* A tools/call request arrives and its handler starts.
StartCall(t) ==
    /\ last.op = "none"
    /\ tasks[t].pc = "idle"
    /\ \E call \in ConcCalls :
           tasks' = Moved(t, [op |-> call.op, args |-> call.args, pc |-> FirstAwait(call)])
    /\ UNCHANGED <<roles, users, nextId, last, prevSeed>>

\* The task after resolveRoleId came back with rr.
AfterResolve(t, rr) ==
    IF rr.ok THEN Moved(t, [pc |-> "write", rid |-> rr.id])
    ELSE Moved(t, [pc |-> "done", env |-> Failure(Prefix(tasks[t].op), rr.err)])

\* await this.resolveRoleId(...): GET /api/roles is served.
Resolve(t) ==
    /\ tasks[t].pc = "resolve"
    /\ tasks' = AfterResolve(t, resolveRoleId(roles, users, nextId, Maybe(tasks[t].args, "role"), TRUE, 0))
    /\ UNCHANGED <<roles, users, nextId, last, prevSeed>>

\* The request a tool sends after the resolution, as the route serves it up
\* to its write: the validators, the unique index and the write are one call
\* of the store.
WriteRoute(tk) ==
    CASE tk.op = "create_user" ->
            apiPostUsers(roles, users, nextId, With(tk.args, "role", tk.rid), 0)
      [] tk.op = "update_user" ->
            apiPutUser(roles, users, nextId, IdArg(tk.args),
                       With(Without(tk.args, "id"), "role", tk.rid), 0)
      [] tk.op = "create_role" -> apiPostRoles(roles, users, nextId, tk.args, 0)
      [] tk.op = "delete_role" -> apiDeleteRole(roles, users, nextId, IdArg(tk.args), 0)

\* The envelope a tool makes of the response res.
EnvelopeOf(op, res) ==
    CASE op = "create_user" ->
            createUserReply(roles, users, nextId, TRUE, Prefix(op), <<>>, res).env
      [] op = "update_user" ->
            updateUserReply(roles, users, nextId, TRUE, Prefix(op), <<>>, res).env
      [] op = "create_role" ->
            createRoleReply(roles, users, nextId, TRUE, Prefix(op), <<>>, res).env
      [] op = "delete_role" ->
            deleteReply(roles, users, nextId, TRUE, Prefix(op), <<>>, res,
                        "Role deleted successfully!").env

\* The task after the write of its request: a written Account is still to be
\* read back with its role (.populate), every other response is rendered; the
\* identifier of a document in the response is kept.
AfterWrite(t, res) ==
    IF tasks[t].op \in {"create_user", "update_user"} /\ res.status \in {200, 201}
    THEN Moved(t, [pc |-> "populate", status |-> res.status, made |-> res.body.doc._id])
    ELSE Moved(t, [pc |-> "done", status |-> res.status, env |-> EnvelopeOf(tasks[t].op, res),
                   made |-> IF Has(res.body, "doc") THEN res.body.doc._id ELSE <<>>])

\* await axios.post / put / delete: the route runs up to its write.
Write(t) ==
    /\ tasks[t].pc = "write"
    /\ Stored(WriteRoute(tasks[t]))
    /\ tasks' = AfterWrite(t, WriteRoute(tasks[t]))
    /\ UNCHANGED <<last, prevSeed>>

\* The response of a user route: the written Account read back by its id with
\* the role populated as the roles stand now.
ReadBack(tk) ==
    Res(roles, users, nextId, tk.status,
        [doc |-> View(roles, users[First(Matching(users, LAMBDA d : d._id = tk.made))])])

\* findById(...).populate('role', ...) of the user routes, and the rendering
\* of the response by the tool.
Populated(t) ==
    /\ tasks[t].pc = "populate"
    /\ Matching(users, LAMBDA d : d._id = tasks[t].made) # {}
    /\ tasks' = Moved(t, [pc |-> "done", env |-> EnvelopeOf(tasks[t].op, ReadBack(tasks[t]))])
    /\ UNCHANGED <<roles, users, nextId, last, prevSeed>>

\* The upsert the seed stands at: the collection, the key of the filter and
\* the fields.
SeedUpsert(tk) ==
    CASE tk.pc = "admin" -> [coll |-> roles, key |-> "name", fields |-> SeedAdminRole]
      [] tk.pc = "user" -> [coll |-> roles, key |-> "name", fields |-> SeedUserRole]
      [] tk.pc = "account" -> [coll |-> users, key |-> "email", fields |-> SeedAdminUser(tk.rid)]

\* The collection holds a document that the filter of the upsert matches.
Hit(up) == Matching(up.coll, LAMBDA d : d[up.key] = up.fields[up.key]) # {}

\* An insert that no unique index checks.
InsertAfterMissNoIndex(coll, n, key, fields) ==
    {[ok |-> TRUE, coll |-> Append(coll, Inserted(fields, n)), nid |-> n + 1,
      doc |-> Inserted(fields, n)]}

\* The insert of an upsert whose query matched nothing.  When another write
\* has put a match in since, the unique index refuses the insert (E11000), or
\* the server runs the upsert again and it updates the match.
InsertAfterMiss(coll, n, key, fields) ==
    IF Matching(coll, LAMBDA d : d[key] = fields[key]) = {}
    THEN {Merge(Upsert(coll, n, key, fields), [ok |-> TRUE])}
    ELSE {[ok |-> FALSE, coll |-> coll, nid |-> n, doc |-> fields],
          Merge(Upsert(coll, n, key, fields), [ok |-> TRUE])}

\* The outcomes of the upsert a seed stands at: the update of the match, or
\* the insert after a query that matched nothing.
UpsertOutcomes(tk) ==
    IF tk.miss
    THEN InsertAfterMiss(SeedUpsert(tk).coll, nextId, SeedUpsert(tk).key, SeedUpsert(tk).fields)
    ELSE {Merge(Upsert(SeedUpsert(tk).coll, nextId, SeedUpsert(tk).key, SeedUpsert(tk).fields),
                [ok |-> TRUE])}

\* The task after its upsert came back with out.
AfterUpsert(t, out) ==
    IF ~out.ok
    THEN Moved(t, [pc |-> "done", miss |-> FALSE, status |-> 500,
                   env |-> Failure(Prefix("seed_database"), DuplicateKeyError(out.doc[SeedUpsert(tasks[t]).key]))])
    ELSE CASE tasks[t].pc = "admin" -> Moved(t, [pc |-> "user", miss |-> FALSE, rid |-> out.doc._id])
           [] tasks[t].pc = "user" -> Moved(t, [pc |-> "account", miss |-> FALSE])
           [] tasks[t].pc = "account" ->
                Moved(t, [pc |-> "done", miss |-> FALSE, status |-> 200, made |-> out.doc._id,
                          env |-> Success("Database seeded successfully!",
                                          <<sAdminEmail, sAdminPassword>>)])

\* The query of a findOneAndUpdate of the seed matches nothing: the insert is
\* still to come.
SeedMiss(t) ==
    /\ tasks[t].pc \in {"admin", "user", "account"}
    /\ ~tasks[t].miss
    /\ ~Hit(SeedUpsert(tasks[t]))
    /\ tasks' = Moved(t, [miss |-> TRUE])
    /\ UNCHANGED <<roles, users, nextId, last, prevSeed>>

\* A findOneAndUpdate of the seed writes: it updates the match, or inserts
\* after a query that matched nothing.
SeedWrite(t) ==
    /\ tasks[t].pc \in {"admin", "user", "account"}
    /\ tasks[t].miss \/ Hit(SeedUpsert(tasks[t]))
    /\ \E out \in UpsertOutcomes(tasks[t]) :
           /\ out.nid <= MaxIds + 1
           /\ IF tasks[t].pc = "account"
              THEN users' = out.coll /\ roles' = roles
              ELSE roles' = out.coll /\ users' = users
           /\ nextId' = out.nid
           /\ tasks' = AfterUpsert(t, out)
    /\ UNCHANGED <<last, prevSeed>>

\* No call is in flight.
Quiet == \A t \in Tasks : tasks[t].pc = "idle"

\* The store is filled before the calls arrive.
SetUp == Quiet /\ (PostRoles \/ Seed \/ Respond)

TaskStep(t) ==
    \/ StartCall(t) \/ Resolve(t) \/ Write(t) \/ Populated(t)
    \/ SeedMiss(t) \/ SeedWrite(t)

\* Two tool calls in flight together over a store filled before.
NextConc == SetUp \/ \E t \in Tasks : TaskStep(t)

SpecConc == Init /\ [][NextConc]_vars
---------------------------------------------------------------------------
(* Properties *)

\* The plaintext secrets a caller supplies or the seed carries.
Plaintexts == {sSecret, sShort, sEmpty, sAdminPassword}

\* A value of the shape the one-way hash produces.
IsDigest(v) ==
    /\ Len(v) > Len(sBcryptPrefix)
    /\ SubSeq(v, 1, Len(sBcryptPrefix)) = sBcryptPrefix

UserCreateOps == {"POST /api/users", "create_user"}
UserUpdateOps == {"PUT /api/users/:id", "update_user"}
RoleCreateOps == {"POST /api/roles", "create_role"}
SeedOps == {"POST /api/seed", "seed_database"}

\* C1: the secret the store holds for an Account is always the one-way hash of
\* the supplied plaintext, never the plaintext, whether the Account was written
\* by create, by update or by seed.
C1_StoredSecretIsDigest ==
    \A i \in 1..Len(users) :
        /\ IsDigest(users[i].password)
        /\ users[i].password \notin Plaintexts

\* The secrets of the stored Accounts: the stored values and the plaintexts
\* they were derived from.
AccountSecrets ==
    {users[i].password : i \in 1..Len(users)}
        \cup {p \in Plaintexts : \E i \in 1..Len(users) : users[i].password \in {p, Hash(p)}}

\* The Account documents a response body carries.
BodyAccounts(body) ==
    IF Has(body, "users") THEN body.users
    ELSE IF Has(body, "doc") THEN <<body.doc>>
    ELSE IF Has(body, "list") THEN body.list
    ELSE <<>>

\* C2: no output contains an Account's secret, neither the stored value nor the
\* plaintext: not a create, update, findById, findAll or seed response, and not
\* a rendered envelope.
C2_NoOutputCarriesSecret ==
    /\ \A i \in 1..Len(BodyAccounts(last.body)) : ~Has(BodyAccounts(last.body)[i], "password")
    /\ \A j \in 1..Len(last.env.vals) : last.env.vals[j] \notin AccountSecrets

\* The Account that findById returns for the id a successful create returned.
Found == apiGetUser(roles, users, nextId, last.body.doc._id, 0)

\* The last operation was a successful REST create of an Account.
Created == last.op = "POST /api/users" /\ last.status = 201

\* The created Account comes back without a secret and with the names and the
\* email of the input, normalized.
ReadsBackNormalized(d) ==
    /\ ~Has(d, "password")
    /\ d.firstName = Trim(last.args.firstName)
    /\ d.lastName = Trim(last.args.lastName)
    /\ d.email = Trim(toLowerCase(last.args.email))

\* The role of the returned Account is the name and description of the stored
\* Role the input refers to.
RoleExpanded(d) ==
    \E i \in 1..Len(roles) :
        /\ roles[i]._id = toLowerCase(last.args.role)
        /\ d.role = [isNull |-> FALSE, _id |-> roles[i]._id, name |-> roles[i].name,
                     description |-> roles[i].description]

\* C3 as stated: create followed by findById of the returned id returns the
\* Account without a secret, with fields equal to the input after email
\* lower-casing and trimming and name trimming, and with the role expanded to
\* the referenced Role's name and description.
C3_AsStated ==
    Created =>
        /\ Found.status = 200
        /\ ReadsBackNormalized(Found.body.doc)
        /\ \A k \in {"phone", "dateOfBirth", "isActive"} \cap DOMAIN last.args :
               Found.body.doc[k] = last.args[k]
        /\ RoleExpanded(Found.body.doc)

\* C3: create followed by findById of the returned id returns the Account
\* without a secret, with email lower-cased and trimmed, names and phone
\* trimmed, the date of birth as a timestamp of the given day, and with the
\* role expanded to the referenced Role's name and description when a Role
\* with that id is stored, and null when none is.
C3_CreateThenFindById ==
    Created =>
        /\ Found.status = 200
        /\ ReadsBackNormalized(Found.body.doc)
        /\ Has(last.args, "phone") => Found.body.doc.phone = Trim(last.args.phone)
        /\ Has(last.args, "dateOfBirth") =>
               toDateString(Found.body.doc.dateOfBirth) = last.args.dateOfBirth
        /\ Has(last.args, "isActive") => Found.body.doc.isActive = last.args.isActive
        /\ IF ById(roles, toLowerCase(last.args.role)) # {}
           THEN RoleExpanded(Found.body.doc)
           ELSE Found.body.doc.role = NullRole

\* An Account created from an upper-case email and padded names, referring to
\* a stored Role, has been read back.
C3_Witness ==
    /\ Created
    /\ last.args.email = sJohnEmail
    /\ last.args.firstName = sJohn
    /\ RoleExpanded(Found.body.doc)

\* The request the REST create of an Account receives: from the tool, the
\* arguments with the role resolved.
PostedAccount(args) ==
    IF last'.layer = "tool"
    THEN With(args, "role", resolveRoleId(roles, users, nextId, Maybe(args, "role"), TRUE, 0).id)
    ELSE args

\* A field set the Account schema accepts, sent to the REST create.
ValidAccountFields(args) ==
    /\ last'.layer = "tool" =>
           resolveRoleId(roles, users, nextId, Maybe(args, "role"), TRUE, 0).ok
    /\ UserInvalidPaths(UserDefaults(CastUser(PostedAccount(args))), UserPaths) = <<>>

\* The error a caller of either layer sees is exactly message m.
Reports(l, prefix, m) ==
    IF l.layer = "tool"
    THEN l.env = [kind |-> "failure", tmpl |-> <<prefix, m>>, vals |-> <<>>]
    ELSE l.status = 400 /\ l.body = [error |-> [tmpl |-> <<m>>, vals |-> <<>>]]

StoreUnchanged == roles' = roles /\ users' = users /\ nextId' = nextId

\* C4: creating an Account with a valid field set whose email equals, ignoring
\* letter case, the email of a stored Account fails with 'Email already
\* exists', inserts nothing, and leaves the stored Account retrievable and
\* unchanged.
C4_DuplicateEmailStep ==
    (/\ last'.op \in UserCreateOps
     /\ ValidAccountFields(last'.args)
     /\ \E i \in 1..Len(users) : toLowerCase(users[i].email) = toLowerCase(last'.args.email))
    => /\ Reports(last', "Failed to create user: ", "Email already exists")
       /\ StoreUnchanged
       /\ \A i \in 1..Len(users) :
              toLowerCase(users[i].email) = toLowerCase(last'.args.email) =>
                  apiGetUser(roles', users', nextId', users[i]._id, 0)
                      = apiGetUser(roles, users, nextId, users[i]._id, 0)

C4_DuplicateEmail == [][C4_DuplicateEmailStep]_vars

\* A create with an upper-case email was refused because the same email is
\* stored in lower case.
C4_Witness ==
    /\ last.op \in UserCreateOps
    /\ last.args.email = sJohnEmail
    /\ Reports(last, "Failed to create user: ", "Email already exists")
    /\ \E i \in 1..Len(users) : users[i].email = sJohnEmailLow

\* C5: creating a Role with a valid field set whose name is the name of a
\* stored Role fails with 'Role name already exists' and inserts nothing.
C5_DuplicateRoleNameStep ==
    (/\ last'.op \in RoleCreateOps
     /\ RoleInvalidPaths(RoleDefaults(last'.args), RolePaths) = <<>>
     /\ \E i \in 1..Len(roles) : roles[i].name = last'.args.name)
    => /\ Reports(last', "Failed to create role: ", "Role name already exists")
       /\ StoreUnchanged

C5_DuplicateRoleName == [][C5_DuplicateRoleNameStep]_vars

\* A create of a Role was refused because its name is stored.
C5_Witness ==
    /\ last.op \in RoleCreateOps
    /\ Reports(last, "Failed to create role: ", "Role name already exists")
    /\ \E i \in 1..Len(roles) : roles[i].name = last.args.name

\* The identifiers the last seed returned: the admin Role, the user Role, the
\* admin Account.
SeedIds == <<last.body.roles[1]._id, last.body.roles[2]._id, last.body.users[1]._id>>

\* The last operation was a successful seed that directly followed one.
SeededTwice == last.op \in SeedOps /\ last.status = 200 /\ prevSeed.ids # <<>>

\* C6: the second of two consecutive seeds returns the identifiers the first
\* returned and leaves the numbers of Roles and Accounts unchanged.
C6_SeedIdempotent ==
    SeededTwice =>
        /\ SeedIds = prevSeed.ids
        /\ Len(roles) = prevSeed.nRoles
        /\ Len(users) = prevSeed.nUsers

\* A seed has directly followed a seed.
C6_Witness == SeededTwice /\ Len(roles) >= 2 /\ Len(users) >= 1

\* The spellings of role names a caller passes to the resolver.
RoleNameInputs == {sAdmin, sAdminCap, sAdminUp, sUser, sMgr}

\* C7: for every stored Role r and every input that is not of the id shape and
\* equals r's name ignoring letter case, resolveRoleId returns r's id.
C7_ResolvesEveryRoleByName ==
    \A i \in 1..Len(roles) :
        \A s \in RoleNameInputs :
            (~IsObjectIdShape(s) /\ toLowerCase(s) = toLowerCase(roles[i].name)) =>
                LET rr == resolveRoleId(roles, users, nextId, <<s>>, TRUE, 0)
                IN  rr.ok /\ rr.id = roles[i]._id

\* The role argument of the call matches, ignoring letter case, no stored Role.
UnknownRoleName(args) ==
    /\ Has(args, "role")
    /\ args.role # <<>>
    /\ ~IsObjectIdShape(args.role)
    /\ \A i \in 1..Len(roles) : toLowerCase(roles[i].name) # toLowerCase(args.role)

\* C8: create_user with a role argument that is not of the id shape and matches
\* no stored Role's name returns a failure envelope that names the role, issues
\* no create request, and inserts no Account.
C8_UnknownRoleStep ==
    (last'.op = "create_user" /\ UnknownRoleName(last'.args))
    => /\ last'.env.kind = "failure"
       /\ last'.env.tmpl = <<"Failed to create user: ", "Failed to resolve role: ", "Role not found">>
       /\ last'.env.vals = <<last'.args.role>>
       /\ \A j \in 1..Len(last'.http) : last'.http[j] # "POST /api/users"
       /\ StoreUnchanged

C8_UnknownRole == [][C8_UnknownRoleStep]_vars

\* create_user was called with the name of a Role that is not stored, while
\* another Role is.
C8_Witness ==
    /\ last.op = "create_user"
    /\ Has(last.args, "role")
    /\ last.args.role = sMgr
    /\ roles # <<>>
    /\ last.env.kind = "failure"
    /\ last.http = <<"GET /api/roles">>

\* The update named by l targets an id that no stored entity of its collection has.
UpdatesMissing(l) ==
    \/ /\ l.op \in UserUpdateOps
       /\ \A i \in 1..Len(users) : users[i]._id # toLowerCase(l.id)
       /\ UserInvalidPaths(CastUser(HashBodyPassword(Without(l.args, "id"))),
                           DOMAIN l.args \ {"id"}) = <<>>
    \/ /\ l.op \in {"PUT /api/roles/:id", "update_role"}
       /\ \A i \in 1..Len(roles) : roles[i]._id # toLowerCase(l.id)
       /\ RoleInvalidPaths(CastRole(Without(l.args, "id")), DOMAIN l.args \ {"id"}) = <<>>

\* The caller is told the entity was not found.
ReportsNotFound(l) ==
    IF l.layer = "tool"
    THEN l.env.kind = "failure" /\ l.env.tmpl[2] \in {"User not found", "Role not found"}
    ELSE l.status = 404

\* C9: an update with a valid field set against an id that identifies no
\* stored entity fails with NotFound, creates no record, and leaves every
\* stored entity unchanged.
C9_UpdateMissingStep ==
    UpdatesMissing(last') => ReportsNotFound(last') /\ StoreUnchanged

C9_UpdateMissing == [][C9_UpdateMissingStep]_vars

\* C10: every invocation of one of the nine tools, whatever the arguments and
\* whatever failure the REST API or the store has, returns a rendered envelope,
\* success or failure; no exception leaves the tool.
C10_ToolsRenderEnvelope ==
    (last.layer = "tool" /\ last.op \in ToolNames) =>
        /\ last.env.kind \in {"success", "failure"}
        /\ last.env.tmpl # <<>>

\* A tool was invoked while the store failed and rendered the failure.
C10_Witness ==
    /\ last.op \in ToolNames
    /\ last.fault.db > 0
    /\ last.env.kind = "failure"
    /\ last.status \in {400, 500}
\* C11: in every reachable state no two stored Roles have names that are equal
\* ignoring letter case, so resolution by name never has two matches.
C11_NamesDifferIgnoringCase ==
    \A i, j \in 1..Len(roles) :
        i # j => toLowerCase(roles[i].name) # toLowerCase(roles[j].name)
RoleUpdateOps == {"PUT /api/roles/:id", "update_role"}

\* The update named by l gives a stored Account the email of another one.
TakesEmail(l) ==
    /\ l.op \in UserUpdateOps
    /\ DOMAIN l.args \ {"id"} = {"email"}
    /\ \E i, j \in 1..Len(users) :
           /\ i # j
           /\ users[i]._id = toLowerCase(l.id)
           /\ users[j].email = Trim(toLowerCase(l.args.email))

\* The update named by l gives a stored Role the name of another one.
TakesName(l) ==
    /\ l.op \in RoleUpdateOps
    /\ DOMAIN l.args \ {"id"} = {"name"}
    /\ \E i, j \in 1..Len(roles) :
           /\ i # j
           /\ roles[i]._id = toLowerCase(l.id)
           /\ roles[j].name = Trim(l.args.name)

\* C12: an update that would give an Account the email of another Account, or
\* a Role the name of another Role, is reported as the normalized duplicate
\* error of that field, never as the raw store message, and changes nothing.
C12_UpdateDuplicateStep ==
    /\ TakesEmail(last') =>
           /\ Reports(last', "Failed to update user: ", "Email already exists")
           /\ StoreUnchanged
    /\ TakesName(last') =>
           /\ Reports(last', "Failed to update role: ", "Role name already exists")
           /\ StoreUnchanged

C12_UpdateDuplicate == [][C12_UpdateDuplicateStep]_vars
\* The caller of either layer is told that validation failed.
RejectedByValidator(l) ==
    IF l.layer = "tool"
    THEN l.env.kind = "failure" /\ Len(l.env.tmpl) >= 3 /\ l.env.tmpl[3] = "validation failed"
    ELSE l.status = 400 /\ Has(l.body, "error") /\ Len(l.body.error.tmpl) >= 2
             /\ l.body.error.tmpl[2] = "validation failed"

\* The request named by l carries a plaintext secret shorter than the minimum:
\* a create that reaches the REST API, or an update of a stored Account.
ShortSecret(l) ==
    /\ Has(l.args, "password")
    /\ Len(l.args.password) < MinPasswordLen
    /\ \/ /\ l.op \in UserCreateOps
          /\ l.layer = "tool" =>
                 resolveRoleId(roles, users, nextId, Maybe(l.args, "role"), TRUE, 0).ok
       \/ l.op \in UserUpdateOps /\ \E i \in 1..Len(users) : users[i]._id = toLowerCase(l.id)

\* C13: on create and on update alike, a plaintext secret shorter than 6
\* characters is rejected with a validation failure and the stored Accounts,
\* their secrets included, are unchanged.
C13_ShortSecretStep == ShortSecret(last') => RejectedByValidator(last') /\ users' = users

C13_ShortSecret == [][C13_ShortSecretStep]_vars
\* The stored secret of Account i after the update named by l: the hash of a
\* supplied plaintext when the update succeeded, the secret as it was otherwise.
SecretAfterUpdate(l, i) ==
    IF Has(l.args, "password") /\ l.status = 200
    THEN Hash(l.args.password)
    ELSE users[i].password

\* C14: an Account update that omits the secret leaves the stored secret as it
\* was; an update that supplies a plaintext secret and succeeds replaces the
\* stored secret with the hash of that plaintext.
C14_SecretOnUpdateStep ==
    last'.op \in UserUpdateOps =>
        /\ Len(users') = Len(users)
        /\ \A i \in 1..Len(users) :
               IF users[i]._id = toLowerCase(last'.id)
               THEN users'[i].password = SecretAfterUpdate(last', i)
               ELSE users'[i].password = users[i].password

C14_SecretOnUpdate == [][C14_SecretOnUpdateStep]_vars

\* An update has replaced the secret of an Account created with another one.
C14_Witness ==
    /\ last.op \in UserUpdateOps
    /\ last.status = 200
    /\ Has(last.args, "password")
    /\ \E i \in 1..Len(users) :
           users[i]._id = toLowerCase(last.id) /\ users[i].password = Hash(sShort)
\* The last operation was get_users called without an id.
ListedUsers == last.op = "get_users" /\ ~Has(last.args, "id")

\* The envelope of the last operation is the rendering of the full list of the
\* stored Accounts, or the rendering of the empty list when there are none.
RendersEveryAccount ==
    /\ last.env.kind = "success"
    /\ IF users = <<>>
       THEN last.env.tmpl = <<"No users found in the system.">>
       ELSE /\ last.env.tmpl = <<"Found user(s):">>
            /\ \A i \in 1..Len(users) :
                   \E j \in 1..Len(last.env.vals) : last.env.vals[j] = users[i].email

\* C15: with the store available, get_users called without an id returns the
\* rendering of the full list with every stored Account, or the 'No users
\* found' rendering, also when an Account refers to a Role that is not stored.
C15_ListsEveryAccount == ListedUsers => RendersEveryAccount
UserDeleteOps == {"DELETE /api/users/:id", "delete_user"}
RoleDeleteOps == {"DELETE /api/roles/:id", "delete_role"}

\* After the delete named by l succeeded, the entity is gone for findById, for
\* findAll and for a second delete.
GoneAfterDelete(l) ==
    IF l.op \in UserDeleteOps
    THEN /\ apiGetUser(roles', users', nextId', l.id, 0).status = 404
         /\ \A i \in 1..Len(users') : users'[i]._id # toLowerCase(l.id)
         /\ apiDeleteUser(roles', users', nextId', l.id, 0).status = 404
    ELSE /\ apiGetRole(roles', users', nextId', l.id, 0).status = 404
         /\ \A i \in 1..Len(roles') : roles'[i]._id # toLowerCase(l.id)
         /\ apiDeleteRole(roles', users', nextId', l.id, 0).status = 404

\* The delete named by l targets an id that no stored entity of its collection has.
DeletesMissing(l) ==
    \/ l.op \in UserDeleteOps /\ \A i \in 1..Len(users) : users[i]._id # toLowerCase(l.id)
    \/ l.op \in RoleDeleteOps /\ \A i \in 1..Len(roles) : roles[i]._id # toLowerCase(l.id)

\* C16: after a delete succeeds, findById of the id yields NotFound, findAll no
\* longer holds the entity and a second delete yields NotFound; a delete of an
\* id that identifies no entity yields NotFound and changes nothing.
C16_HardDeleteStep ==
    /\ (last'.op \in UserDeleteOps \cup RoleDeleteOps /\ last'.status = 200) =>
           GoneAfterDelete(last')
    /\ DeletesMissing(last') => ReportsNotFound(last') /\ StoreUnchanged

C16_HardDelete == [][C16_HardDeleteStep]_vars
\* The last operation was a findById, from either layer, of an id that no
\* stored entity of its collection has.
FoundMissing ==
    \/ /\ \/ last.op = "GET /api/users/:id"
          \/ last.op = "get_users" /\ Has(last.args, "id")
       /\ \A i \in 1..Len(users) : users[i]._id # toLowerCase(last.id)
    \/ /\ \/ last.op = "GET /api/roles/:id"
          \/ last.op = "get_roles" /\ Has(last.args, "id")
       /\ \A i \in 1..Len(roles) : roles[i]._id # toLowerCase(last.id)

\* C17: findById, and get_users and get_roles called with an id, yield NotFound
\* for every id that identifies no stored entity of that kind, ids that are not
\* of the identifier shape included.
C17_FindMissing == FoundMissing => ReportsNotFound(last)
\* The last operation was a successful seed.
Seeded == last.op \in SeedOps /\ last.status = 200

\* Role d is the canonical Role of that name.
CanonicalRole(d, name, description, permissions) ==
    /\ d.name = name
    /\ d.description = description
    /\ d.permissions = permissions
    /\ d.isActive = TRUE
    /\ DOMAIN d = {"_id", "name", "description", "permissions", "isActive", "createdAt"}

\* Account d holds the values the seed gives, and refers to Role a.
CanonicalAccountFields(d, a) ==
    /\ d.email = sAdminEmail
    /\ d.firstName = sAdminFirst
    /\ d.lastName = sAdminLast
    /\ d.password = sAdminPassword
    /\ d.phone = sAdminPhone
    /\ d.role = a._id
    /\ d.isActive = TRUE

SeedSetsOfAccount ==
    {"_id", "firstName", "lastName", "email", "password", "phone", "role", "isActive", "createdAt"}

\* The store holds the two canonical Roles and an Account of the canonical
\* values whose remaining fields are among `others`.
HoldsCanonical(others) ==
    \E i, j \in 1..Len(roles), k \in 1..Len(users) :
        /\ CanonicalRole(roles[i], sAdmin, sAdminDesc, <<"read", "write", "delete", "admin">>)
        /\ CanonicalRole(roles[j], sUser, sUserDesc, <<"read">>)
        /\ CanonicalAccountFields(users[k], roles[i])
        /\ DOMAIN users[k] \subseteq SeedSetsOfAccount \cup others

DeletesStoredRole(l) ==
    l.op \in RoleDeleteOps /\ \E i \in 1..Len(roles) : roles[i]._id = toLowerCase(l.id)

\* An Account refers to the Role that the delete named by l targets.
Referenced(l) == \E k \in 1..Len(users) : users[k].role = toLowerCase(l.id)

\* C19: a delete of a stored Role succeeds whether or not Accounts refer to it,
\* removes that Role, and leaves every Account, its role reference included,
\* as it was.
C19_DeleteRoleStep ==
    DeletesStoredRole(last') =>
        /\ last'.status = 200
        /\ last'.layer = "tool" =>
               last'.env = Success("Role deleted successfully!", <<>>)
        /\ users' = users
        /\ Len(roles') = Len(roles) - 1
        /\ \A i \in 1..Len(roles') : roles'[i]._id # toLowerCase(last'.id)

C19_DeleteRole == [][C19_DeleteRoleStep]_vars

\* delete_role has removed a Role that an Account still refers to.
C19_Witness ==
    /\ last.op = "delete_role"
    /\ last.status = 200
    /\ \A i \in 1..Len(roles) : roles[i]._id # toLowerCase(last.id)
    /\ \E k \in 1..Len(users) : users[k].role = toLowerCase(last.id)
\* Role identifiers of exactly 24 hexadecimal characters: ids that stored
\* Roles have, an id that none has, and one in capitals.
IdShapedInputs ==
    {<<ObjectId(k)>> : k \in 1..(MaxIds + 1)} \cup {<<[i \in 1..IdLen |-> "A"]>>}

\* Other role identifiers: hexadecimal strings one character short and one
\* character long, 24 characters of which the last is not hexadecimal, names,
\* the empty string and no value.
OtherInputs ==
    {<<[i \in 1..(IdLen - 1) |-> "0"]>>,
     <<[i \in 1..(IdLen + 1) |-> "0"]>>,
     <<[i \in 1..IdLen |-> IF i < IdLen THEN "0" ELSE "x"]>>,
     <<sAdmin>>, <<sAdminCap>>, <<sAdminUp>>, <<sMgr>>, <<sEmpty>>, <<>>}

\* Tools that resolve a role, called with one.
ResolvesRole(l) ==
    /\ l.layer = "tool"
    /\ l.op \in {"create_user", "update_user"}
    /\ Has(l.args, "role")

\* The requests sent by the tool call l.
Requests(l) == {l.http[i] : i \in 1..Len(l.http)}

\* C20: resolveRoleId answers an input of exactly 24 hexadecimal characters
\* with the input itself and without a request, whether or not a Role has that
\* id; for every other input it requests the role collection.
C20_ResolveById ==
    /\ \A arg \in IdShapedInputs :
           resolveRoleId(roles, users, nextId, arg, TRUE, 0)
               = [ok |-> TRUE, id |-> arg[1], http |-> <<>>, calls |-> 0]
    /\ \A arg \in OtherInputs :
           /\ resolveRoleId(roles, users, nextId, arg, TRUE, 0).http = <<"GET /api/roles">>
           /\ resolveRoleId(roles, users, nextId, arg, TRUE, 0).calls = 1
    /\ ResolvesRole(last) =>
           IF <<last.args.role>> \in IdShapedInputs
           THEN "GET /api/roles" \notin Requests(last)
           ELSE last.http # <<>> /\ last.http[1] = "GET /api/roles"

\* create_user has been called with the id of no stored Role as its role, and
\* has sent the create request alone.
C20_Witness ==
    /\ last.op = "create_user"
    /\ Has(last.args, "role")
    /\ IsObjectIdShape(last.args.role)
    /\ \A i \in 1..Len(roles) : roles[i]._id # last.args.role
    /\ last.http = <<"POST /api/users">>
    /\ \E k \in 1..Len(users) : users[k].role = last.args.role
\* The body a create hands to the store layer: the tool lays the resolved
\* role identifier in.
PostedBody(l) ==
    IF l.op = "create_user"
    THEN With(l.args, "role", resolveRoleId(roles, users, nextId, Maybe(l.args, "role"), TRUE, 0).id)
    ELSE l.args

RequiredFields(l) ==
    IF l.op \in RoleCreateOps THEN {"name", "description"}
    ELSE {"firstName", "lastName", "email", "password", "role"}

\* The create named by l reaches the store layer with a required field absent
\* or empty after trimming.
LacksRequired(l) ==
    /\ l.op \in RoleCreateOps \cup UserCreateOps
    /\ l.op = "create_user" =>
           resolveRoleId(roles, users, nextId, Maybe(l.args, "role"), TRUE, 0).ok
    /\ \E k \in RequiredFields(l) :
           ~Has(PostedBody(l), k) \/ Trim(PostedBody(l)[k]) = <<>>

\* C21: a create of a Role or an Account in which a required field is absent
\* or is empty after trimming is rejected with a validation failure and leaves
\* the store as it was.
C21_RequiredFieldsStep == LacksRequired(last') => RejectedByValidator(last') /\ StoreUnchanged

C21_RequiredFields == [][C21_RequiredFieldsStep]_vars
\* The create or update of a Role named by l carries a permission outside the
\* enumeration.
ForeignPermission(l) ==
    /\ l.op \in RoleCreateOps \cup RoleUpdateOps
    /\ Has(l.args, "permissions")
    /\ \E i \in 1..Len(l.args.permissions) : l.args.permissions[i] \notin Permissions

\* C22: the permissions of every stored Role are drawn from read, write,
\* delete and admin: a create or an update of a Role with a permission outside
\* the enumeration is rejected and leaves the store as it was, with a
\* validation failure whenever the request names no malformed id.
C22_PermissionsStep ==
    /\ \A i \in 1..Len(roles') :
           \A j \in 1..Len(roles'[i].permissions) : roles'[i].permissions[j] \in Permissions
    /\ ForeignPermission(last') =>
           /\ last'.status = 400
           /\ last'.layer = "tool" => last'.env.kind = "failure"
           /\ StoreUnchanged
           /\ (last'.op \in RoleCreateOps \/ CanCastObjectId(last'.id)) =>
                  RejectedByValidator(last')

C22_Permissions == [][C22_PermissionsStep]_vars

\* update_role has been refused a permission outside the enumeration for a
\* stored Role.
C22_Witness ==
    /\ last.op = "update_role"
    /\ ForeignPermission(last)
    /\ RejectedByValidator(last)
    /\ \E i \in 1..Len(roles) : roles[i]._id = toLowerCase(last.id)
\* The outcome of resolving the role argument of l in the present state.
Resolved(l) == resolveRoleId(roles, users, nextId, Maybe(l.args, "role"), TRUE, 0)

\* The positions of the Account that the update named by l targets.
Target(l) == {k \in 1..Len(users) : users[k]._id = toLowerCase(l.id)}

\* C23: update_user resolves a role argument before it sends the update and
\* resolves nothing without one.  A name that no stored Role has ends the call
\* with no update sent and the store as it was; a role that resolves is sent
\* as the resolved identifier, which is what the updated Account then holds,
\* and no Account ever holds the name.
C23_UpdateResolvesStep ==
    last'.op = "update_user" =>
        /\ ~Has(last'.args, "role") => last'.http = <<"PUT /api/users/:id">>
        /\ UnknownRoleName(last'.args) =>
               /\ last'.http = <<"GET /api/roles">>
               /\ last'.env = Failure("Failed to update user: ", RoleNotFound(last'.args.role).err)
               /\ StoreUnchanged
        /\ (Has(last'.args, "role") /\ Resolved(last').ok) =>
               /\ last'.http = Resolved(last').http \o <<"PUT /api/users/:id">>
               /\ IsObjectIdShape(Resolved(last').id)
               /\ \A k \in Target(last') :
                      /\ last'.status = 200
                      /\ users'[k].role = toLowerCase(Resolved(last').id)
        /\ Has(last'.args, "role") =>
               \A k \in 1..Len(users') :
                   users'[k].role = last'.args.role => IsObjectIdShape(last'.args.role)

C23_UpdateResolves == [][C23_UpdateResolvesStep]_vars

\* update_user has been given the name of a stored Role for a stored Account,
\* has asked for the roles and then sent the update, and the Account holds
\* the identifier of that Role.
C23_Witness ==
    /\ last.op = "update_user"
    /\ Has(last.args, "role")
    /\ ~IsObjectIdShape(last.args.role)
    /\ last.http = <<"GET /api/roles", "PUT /api/users/:id">>
    /\ last.status = 200
    /\ \E k \in 1..Len(users), i \in 1..Len(roles) :
           /\ users[k]._id = toLowerCase(last.id)
           /\ users[k].role = roles[i]._id
           /\ toLowerCase(roles[i].name) = toLowerCase(last.args.role)
\* The tools that find, update or delete one entity by its id.
ByIdOps ==
    {"get_users", "get_roles", "update_user", "update_role", "delete_user", "delete_role"}

UserOps == {"get_users", "update_user", "delete_user"}

\* The tool call l names a well-formed id that no stored entity of its kind has.
NamesMissing(l) ==
    /\ l.op \in ByIdOps
    /\ Has(l.args, "id")
    /\ CanCastObjectId(l.args.id)
    /\ IF l.op \in UserOps
       THEN \A k \in 1..Len(users) : users[k]._id # toLowerCase(l.args.id)
       ELSE \A i \in 1..Len(roles) : roles[i]._id # toLowerCase(l.args.id)

\* The store is unavailable to the call l: its first store call fails.
StoreDown(l) == l.fault = [net |-> TRUE, db |-> 1]

\* What the call l would leave with the store available.
WithStoreUp(l) == CallTool(roles, users, nextId, l.op, l.args, Db(0))

\* A NotFound outcome: status 404 and the not-found message, rendered.
IsNotFound(res, pre) ==
    /\ res.status = 404
    /\ res.body.error.tmpl \in {<<"User not found">>, <<"Role not found">>}
    /\ res.env = Failure(pre, res.body.error)

\* The prefix a tool puts before the error message.
FailurePrefix(op) ==
    CASE op = "get_users" -> "Failed to retrieve users: "
      [] op = "get_roles" -> "Failed to retrieve roles: "
      [] op = "update_user" -> "Failed to update user: "
      [] op = "update_role" -> "Failed to update role: "
      [] op = "delete_user" -> "Failed to delete user: "
      [] op = "delete_role" -> "Failed to delete role: "

\* The update named by l carries fields that the validators accept and a
\* role, if any, that resolves.
UpdateReachesStore(l) ==
    l.op \in {"update_user", "update_role"} => WithStoreUp(l).status \in {200, 404}

\* C24: for findById, update and delete of a well-formed id that no entity
\* has, the outcome while the store is unavailable differs from the NotFound
\* outcome given while it is available, in the status and the message of the
\* REST response and in the failure envelope of the tool.
C24_OutageStep ==
    (NamesMissing(last') /\ StoreDown(last') /\ UpdateReachesStore(last')) =>
        /\ IsNotFound(WithStoreUp(last'), FailurePrefix(last'.op))
        /\ last'.status # 404
        /\ last'.env.kind = "failure"
        /\ last'.env # WithStoreUp(last').env
        /\ last'.body # WithStoreUp(last').body
        /\ StoreUnchanged

C24_Outage == [][C24_OutageStep]_vars

\* get_users has been asked for a well-formed id that no Account has while the
\* store was unavailable, and has rendered the failure of the store.
C24_Witness ==
    /\ last.op = "get_users"
    /\ StoreDown(last)
    /\ NamesMissing(last)
    /\ last.status = 500
    /\ last.env = Failure("Failed to retrieve users: ", StoreError)
\* The fields the update named by l carries.
SentFields(l) == DOMAIN l.args \ {"id"}

\* Document e is document d but for the fields in `sent`: the same fields
\* besides, with the same values, the identifier and createdAt among them.
SameBut(d, e, sent) ==
    /\ e._id = d._id
    /\ e.createdAt = d.createdAt
    /\ "_id" \notin sent /\ "createdAt" \notin sent
    /\ DOMAIN e \ sent = DOMAIN d \ sent
    /\ \A f \in DOMAIN d \ sent : e[f] = d[f]

\* Collection c2 is collection c1 but for the fields in `sent` of the one
\* document that has the identifier id.
OneChanged(c1, c2, id, sent) ==
    /\ Len(c2) = Len(c1)
    /\ \E k \in 1..Len(c1) : c1[k]._id = toLowerCase(id)
    /\ \A k \in 1..Len(c1) :
           IF c1[k]._id = toLowerCase(id) THEN SameBut(c1[k], c2[k], sent) ELSE c2[k] = c1[k]

\* C25: an update that succeeds changes only the fields the update carries
\* (and updatedAt, which is not kept here): the identifier, createdAt and every
\* field absent from the update are what they were, no field comes or goes
\* besides, and no other entity changes.
C25_UpdateFrameStep ==
    /\ (last'.op \in UserUpdateOps /\ last'.status = 200) =>
           /\ OneChanged(users, users', last'.id, SentFields(last'))
           /\ roles' = roles
           /\ nextId' = nextId
    /\ (last'.op \in RoleUpdateOps /\ last'.status = 200) =>
           /\ OneChanged(roles, roles', last'.id, SentFields(last'))
           /\ users' = users
           /\ nextId' = nextId

C25_UpdateFrame == [][C25_UpdateFrameStep]_vars

\* update_role has renamed one of two stored Roles, and that Role has the
\* description and the permissions it had.
C25_Witness ==
    /\ last.op = "update_role"
    /\ last.status = 200
    /\ SentFields(last) = {"name"}
    /\ Len(roles) >= 2
    /\ \E k \in 1..Len(roles) :
           /\ roles[k]._id = toLowerCase(last.id)
           /\ roles[k].name = sAdminCap
           /\ roles[k].permissions # <<>>
           /\ roles[k].createdAt = k
\* The collection holds the canonical Role of that name.
HoldsRole(coll, name, description, permissions) ==
    \E i \in 1..Len(coll) : CanonicalRole(coll[i], name, description, permissions)

HoldsAdminRole(coll) ==
    HoldsRole(coll, sAdmin, sAdminDesc, <<"read", "write", "delete", "admin">>)

HoldsUserRole(coll) == HoldsRole(coll, sUser, sUserDesc, <<"read">>)

\* The seed named by l met a failure of its k-th store call.
SeedFailedAt(l, k) == l.op = "seed_database" /\ l.fault = [net |-> TRUE, db |-> k]

\* The Roles of the collection that do not have that name, in order.
Except(coll, name) == SelectSeq(coll, LAMBDA d : d.name # name)

\* C29: the seed upserts the admin Role, then the user Role, then the Account,
\* and undoes nothing: when the Account upsert fails after both Role upserts
\* the seed reports the failure, both Roles are in the store with their
\* canonical values and the Accounts are what they were; when the user Role
\* upsert fails the admin Role is in the store and the Roles of other names are
\* what they were; when the admin Role upsert fails nothing has changed.
C29_SeedNoRollbackStep ==
    /\ (\E k \in 1..3 : SeedFailedAt(last', k)) =>
           /\ last'.status = 500
           /\ last'.env = Failure("Failed to seed database: ", StoreError)
           /\ users' = users
    /\ SeedFailedAt(last', 3) =>
           /\ HoldsAdminRole(roles') /\ HoldsUserRole(roles')
           /\ Except(Except(roles', sAdmin), sUser) = Except(Except(roles, sAdmin), sUser)
    /\ SeedFailedAt(last', 2) =>
           /\ HoldsAdminRole(roles')
           /\ Except(roles', sAdmin) = Except(roles, sAdmin)
    /\ SeedFailedAt(last', 1) => StoreUnchanged

C29_SeedNoRollback == [][C29_SeedNoRollbackStep]_vars

\* A seed has failed at the Account upsert on a store that held neither Role
\* before: both Roles are stored and no Account has the admin email.
C29_Witness ==
    /\ SeedFailedAt(last, 3)
    /\ last.status = 500
    /\ HoldsAdminRole(roles) /\ HoldsUserRole(roles)
    /\ Len(roles) = 2
    /\ nextId = 3
    /\ \A k \in 1..Len(users) : users[k].email # sAdminEmail
\* C28: create_user and update_user answer with a success envelope exactly
\* when the Account was written: after a failure envelope the stored Accounts
\* are what they were, also when the role argument is of the identifier shape
\* and identifies no stored Role; after a success envelope the write was
\* acknowledged by the REST API.
C28_EnvelopeTellsWriteStep ==
    last'.op \in {"create_user", "update_user"} =>
        /\ last'.env.kind \in {"success", "failure"}
        /\ last'.env.kind = "failure" => users' = users
        /\ last'.env.kind = "success" => last'.status \in {200, 201}

C28_EnvelopeTellsWrite == [][C28_EnvelopeTellsWriteStep]_vars
\* Both calls in flight have ended.
BothDone == \A t \in Tasks : tasks[t].pc = "done"

\* The email an Account of these arguments is stored under.
StoredEmail(args) == Trim(toLowerCase(args.email))

\* Two create_user calls with valid fields and the same email ignoring case
\* have both come to the write of the Account.
TwoCreatesOfOneEmail ==
    /\ BothDone
    /\ \A t \in Tasks :
           /\ tasks[t].op = "create_user"
           /\ tasks[t].status # 0
           /\ UserInvalidPaths(UserDefaults(CastUser(With(tasks[t].args, "role", tasks[t].rid))),
                               UserPaths) = <<>>
    /\ StoredEmail(tasks[1].args) = StoredEmail(tasks[2].args)

\* Two create_role calls with the same name have both ended.
TwoCreatesOfOneName ==
    /\ BothDone
    /\ \A t \in Tasks : tasks[t].op = "create_role"
    /\ Trim(tasks[1].args.name) = Trim(tasks[2].args.name)

\* Task t created a document and task u was refused with the message m.
OneWon(t, u, m) ==
    /\ tasks[t].status = 201
    /\ tasks[t].env.kind = "success"
    /\ tasks[u].status = 400
    /\ tasks[u].env = Failure(Prefix(tasks[u].op), Msg(m, <<>>))

\* Both tasks were refused with the message m.
BothLost(m) ==
    \A t \in Tasks :
        tasks[t].status = 400 /\ tasks[t].env = Failure(Prefix(tasks[t].op), Msg(m, <<>>))

\* C26: of two create_user calls in flight together with the same email
\* ignoring case exactly one succeeds, the other gets the duplicate-email
\* failure, and one Account has that email in the end, under every
\* interleaving; likewise of two create_role calls with the same name exactly
\* one succeeds and one Role has that name in the end, unless a Role had it
\* before, when both get the duplicate-name failure.
C26_ConcurrentCreates ==
    /\ TwoCreatesOfOneEmail =>
           /\ OneWon(1, 2, "Email already exists") \/ OneWon(2, 1, "Email already exists")
           /\ Cardinality({k \in 1..Len(users) : users[k].email = StoredEmail(tasks[1].args)}) = 1
    /\ TwoCreatesOfOneName =>
           /\ \/ OneWon(1, 2, "Role name already exists")
              \/ OneWon(2, 1, "Role name already exists")
              \/ BothLost("Role name already exists")
           /\ Cardinality({i \in 1..Len(roles) : roles[i].name = Trim(tasks[1].args.name)}) = 1
           /\ BothLost("Role name already exists") =>
                  \A i \in 1..Len(roles) :
                      roles[i].name = Trim(tasks[1].args.name) =>
                          roles[i]._id \notin {tasks[t].made : t \in Tasks}

\* Two create_user calls with emails that differ in case only have ended, one
\* with the Account created and one with the duplicate-email failure.
C26_Witness ==
    /\ TwoCreatesOfOneEmail
    /\ tasks[1].args.email # tasks[2].args.email
    /\ OneWon(2, 1, "Email already exists")
    /\ Len(users) = 1
\* Task t, given its role by name, writes an Account in this step.
WritesByName(t) ==
    /\ tasks[t].op \in {"create_user", "update_user"}
    /\ ~IsObjectIdShape(tasks[t].args.role)
    /\ tasks[t].pc = "write"
    /\ tasks'[t].pc = "populate"

\* C27: when create_user or update_user is given a role by name, the role
\* identifier written into the Account identifies a Role that is in the store
\* at the moment of the write, under every interleaving with delete_role calls
\* in flight.
C27_RoleExistsAtWriteStep ==
    \A t \in Tasks :
        WritesByName(t) =>
            \A k \in 1..Len(users') :
                users'[k]._id = tasks'[t].made =>
                    \E i \in 1..Len(roles') : roles'[i]._id = users'[k].role

C27_RoleExistsAtWrite == [][C27_RoleExistsAtWriteStep]_vars
\* Two seed calls are in flight together, or have ended.
TwoSeeds == \A t \in Tasks : tasks[t].op = "seed_database"

AdminRoles == {i \in 1..Len(roles) : roles[i].name = sAdmin}
UserRoles == {i \in 1..Len(roles) : roles[i].name = sUser}
AdminAccounts == {k \in 1..Len(users) : users[k].email = sAdminEmail}

\* C30: while two seed calls are in flight together the store never holds two
\* Roles named 'admin', two named 'user' or two Accounts with the admin email,
\* and when both have ended, under every interleaving, it holds exactly one of
\* each and the Account refers to the one admin Role.
C30_ConcurrentSeeds ==
    TwoSeeds =>
        /\ Cardinality(AdminRoles) <= 1
        /\ Cardinality(UserRoles) <= 1
        /\ Cardinality(AdminAccounts) <= 1
        /\ BothDone =>
               /\ Cardinality(AdminRoles) = 1
               /\ Cardinality(UserRoles) = 1
               /\ Cardinality(AdminAccounts) = 1
               /\ \A k \in AdminAccounts : \A i \in AdminRoles : users[k].role = roles[i]._id
               /\ \E t \in Tasks : tasks[t].status = 200

\* Two seed calls have ended on a store that held none of the three entities
\* before: one was refused an insert by a unique index, the other succeeded.
C30_Witness ==
    /\ TwoSeeds
    /\ BothDone
    /\ tasks[1].status = 500
    /\ tasks[2].status = 200
    /\ Len(roles) = 2
    /\ Len(users) = 1
    /\ nextId = 4
====
